---- MODULE Spec2Model ----
(***************************************************************************)
(* The incremental static-site build of fleax (the CLI of part_006):       *)
(* build(), buildIslands(), the cache file, and the debounced rebuild      *)
(* trigger of watch mode and of serve --hot.                               *)
(*                                                                         *)
(* Spec       : sequential runs of build() over a small project, with      *)
(*              source edits, output deletions and NODE_ENV changes        *)
(*              between the runs.                                          *)
(* ResetSpec  : runs of build() between which the purge flag, the keep     *)
(*              list and the cache file change as well.                    *)
(* FailSpec   : runs of build() over sources that make esbuild, the        *)
(*              import, the renderer or lightningcss throw.                *)
(* ClosureSpec: runs of build() with a Closure Compiler that can fail.     *)
(* SnapSpec   : depHashesEqual on every pair of small snapshots.           *)
(* WatchSpec  : the trigger / timer / building / queued machine.           *)
(* WatchFair  : WatchSpec with the event loop's fairness (a pending timer  *)
(*              expires, a running build settles).                         *)
(*                                                                         *)
(* What the model keeps and what it leaves out:                            *)
(*  - a file's bytes are a number; md5 and hash() are injective on them;   *)
(*  - the output directory is the set of files that exist in it; source    *)
(*    maps, *.tmp files of the Closure pass and .fleax-temp are left out;  *)
(*  - a tool throws exactly on the contents named Broken; only FailSpec    *)
(*    writes them;                                                         *)
(*  - the purged CSS of a text differs from its unpurged CSS and does not  *)
(*    depend on the page's HTML or on the keep list;                       *)
(*  - the two page files have different routes and the two island sources  *)
(*    different base names, so no two units share an output path;          *)
(*  - the project changes only between two runs of build().                *)
(***************************************************************************)
EXTENDS Integers, Sequences, FiniteSets, TLC

\* ------------------------------------------------------------------------
\* Bounds
\* ------------------------------------------------------------------------
\* number of changes made to the project between builds in one behaviour
MaxEdits == 2
\* number of file-change events delivered to the watcher in one behaviour
MaxTriggers == 4
\* number of entries of a dependency snapshot handed to depHashesEqual
MaxEntries == 2

\* ------------------------------------------------------------------------
\* The project: two page files, two island sources, two CSS files
\* ------------------------------------------------------------------------
\* the page files in readdirSync order
PageOrder == <<"pages/a.tsx", "pages/b.tsx">>
Pages == {PageOrder[i] : i \in 1..Len(PageOrder)}

Counter == "./src/counter.ts"
Menu == "./src/menu.ts"
IslandSrcs == {Counter, Menu}

PageCssFile == "src/page.css"
IslandCssFile == "src/island.css"

\* join(cwd, src) for a "./" specifier
resolveIslandSrcPath(src) == IF src = Counter THEN "src/counter.ts" ELSE "src/menu.ts"

IslandFiles == {resolveIslandSrcPath(s) : s \in IslandSrcs}
CssFiles == {PageCssFile, IslandCssFile}
Files == Pages \cup IslandFiles \cup CssFiles

\* basename(path, extname(path))
baseName(path) ==
    CASE path = "pages/a.tsx" -> "a"
      [] path = "pages/b.tsx" -> "b"
      [] path = "src/counter.ts" -> "counter"
      [] path = "src/menu.ts" -> "menu"
      [] OTHER -> "style"

\* A file's content is a number naming its bytes; 0 is "no such file".
\* What the bytes of a page module mean: does it have a default export,
\* which islands does its render register (in order), does it import
\* src/page.css.
PageTable == <<
    [def |-> TRUE,  isl |-> <<>>,              css |-> FALSE],
    [def |-> TRUE,  isl |-> <<Counter>>,       css |-> TRUE],
    [def |-> TRUE,  isl |-> <<Counter, Menu>>, css |-> FALSE],
    [def |-> FALSE, isl |-> <<>>,              css |-> FALSE] >>

\* What the bytes of an island module mean: does it import src/island.css.
\* Contents 2 and 3 import it and differ in their own bytes.
IslandTable == << [css |-> FALSE], [css |-> TRUE], [css |-> TRUE] >>

\* the keep lists package.json can hold (fleax.class.keep), as JSON text;
\* the first is the default of loadFleaxConfig
KeepLists == << "[]", "[\"btn\"]" >>

\* the two texts a CSS file can hold
CssTexts == {1, 2}

\* contents no tool accepts: a page module esbuild, the import or the
\* renderer throws on, an island module esbuild throws on, a CSS text
\* lightningcss throws on
BrokenPage == Len(PageTable) + 1
BrokenIsland == Len(IslandTable) + 1
BadCss == Cardinality(CssTexts) + 1

Broken(f) ==
    IF f \in Pages THEN BrokenPage
    ELSE IF f \in IslandFiles THEN BrokenIsland
    ELSE BadCss

\* the contents a well-formed file can hold
Contents(f) ==
    IF f \in Pages THEN 1..Len(PageTable)
    ELSE IF f \in IslandFiles THEN 1..Len(IslandTable)
    ELSE CssTexts

\* ------------------------------------------------------------------------
\* Small helpers
\* ------------------------------------------------------------------------
Range(s) == {s[i] : i \in 1..Len(s)}
EmptyMap == [x \in {} |-> 0]
Restrict(m, S) == [x \in (DOMAIN m) \cap S |-> m[x]]
Put(m, k, v) == [x \in (DOMAIN m) \cup {k} |-> IF x = k THEN v ELSE m[x]]
\* a Map.set that appends the key again
AddKeyAgain(s, k) == Append(s, k)

\* Map.set / Set.add keep the position of a key that is already there
AddKey(s, k) == IF k \in Range(s) THEN s ELSE Append(s, k)
RECURSIVE AddKeys(_, _)
AddKeys(s, ks) == IF ks = <<>> THEN s ELSE AddKeys(AddKey(s, Head(ks)), Tail(ks))

\* ------------------------------------------------------------------------
\* State
\* ------------------------------------------------------------------------
VARIABLES
    \* the disk
    fs,          \* source file -> content (0: missing)
    dist,        \* the set of files that exist in the output directory
    cacheFile,   \* .fleax-cache.json: a cache object, or NoCacheFile
    isProd,      \* NODE_ENV === "production" for the next process
    htmlRefs,    \* HTML file in dist -> the script and stylesheet URLs in it
    bundle,      \* island JS file in dist -> "esbuild" | "closure" (who wrote it)
    \* what the next process is started with
    purgeFlag,   \* "none" | "on" | "off": --purge / --no-purge on the command line
    classKeep,   \* fleax.class.keep of package.json
    closureFails,\* island sources the Closure Compiler fails on
    restArgs,    \* process.argv.slice(3)
    \* build(): position and locals
    pc, todo, pageFiles, cache, nextPages, renderedPages, islandSourcesByPage,
    unchangedPagePaths, allIslands, pagesToWrite,
    \* buildIslands(): locals
    paths, cssOutputs, nextCache, changedSources,
    \* history of the current build() invocation
    writes,      \* output files written
    deletes,     \* output files removed
    saves,       \* calls of saveCache
    renderCalls, \* pages renderPage was called for
    compiled,    \* island sources esbuild compiled
    compileLog,  \* the esbuild calls of buildIslands, in order
    purgeCalls,  \* the calls of optimizeCss of build(): page and purge option
    distAtStart, \* the output directory when build() was called
    cacheAtStart,\* the cache file when build() was called
    cleanRun,    \* the previous build saved its cache and nothing changed since
    \* history across builds
    sinceBuild,  \* "none" | "clean" | "dirty"
    edits,
    delta,       \* what changed since the last build that ran to its end
    runDelta,    \* delta when build() was called ({"first"}: no build before)
    \* a call of depHashesEqual: its arguments and its result
    eqA, eqB, eqOut,
    \* a call of optimizeCss: its arguments and the unused symbols it passes
    optCss,      \* the class names written in the stylesheet
    optHtml,     \* the class attributes of page.html, each a list of tokens
    optKeep,     \* the classKeep array
    optPurge,    \* the purge option
    optOut,      \* "none" | "returned" | "minified" | "purged"
    optUnused,   \* unusedSymbols handed to lightningcss
    \* a request to the dev server
    srvUrl,      \* req.url, as a list of pieces of text
    srvStatus,   \* the status of the response (0: no request yet)
    srvRead,     \* the file readFileSync was called on, or NoRead
    \* the live-reload channel of the dev server
    notifyTimer, \* id held by notifyTimer (0: never set)
    notifyArmed, \* ids of the reload timers that are armed
    liveClients, \* the open event streams
    seenClients, \* the clients that have connected so far
    closedClients, \* ghost: the clients whose request has closed
    lateWrite,   \* ghost: a reload event was written to a closed request's response
    joinedAt,    \* client -> number of output changes before it connected
    received,    \* client -> number of reload events written to it
    distWrites,  \* number of changes the watcher of dist has reported
    groups,      \* number of changes that found no reload timer armed
    \* the island registry of the renderer
    islandRegistry, \* the keys of the Map, in insertion order
    islandCounter,
    islandCalls, \* number of Island calls since the last resetIslands
    sinceReset,  \* the src values passed to Island since the last resetIslands
    got,         \* the collection the last getIslands call returned
    gotFrom,     \* sinceReset when that call was made
    history,     \* the renderHtml calls so far: page and HTML returned
    \* the lifecycle module and the client renderer
    currentMounts,   \* the array onMount pushes to (0: null)
    currentCleanups, \* the array onCleanup pushes to (0: null)
    frames,      \* the runWithLifecycle calls that are active, innermost last
    mountsArr,   \* call -> the mounts array it created
    cleanupsArr, \* call -> the cleanups array it created
    returnedCalls, \* the calls that have returned their arrays
    ownMounts,   \* call -> the onMount callbacks its own function registered
    ownCleanups, \* call -> the onCleanup callbacks its own function registered
    outsideCbs,  \* the callbacks registered while no call was active
    nextCb,      \* number of callbacks created so far
    invokedCbs,  \* the callbacks that have been invoked
    cleanupMap,  \* DOM node -> the cleanups array stored for it
    mounted,     \* the components mount() has put into the document
    unmounted,   \* the nodes unmount() has removed
    \* the reactive values of core/signals
    refVal, \* ref -> its value (val of the closure)
    refSubs, \* ref -> its subs, in insertion order
    effects, \* the execute functions: body, number of runs, refs read in the last run
    currentEffect, \* the execute function that is running (0: null)
    effectStack, \* the effectStack array
    assigns, \* number of assignments made by top-level code
    missed, \* <<effect, ref>>: the ref was given a new value and the effect did not run
    idleRuns, \* an assignment of the value a ref already had ran an effect
    \* the context module and the server renderer
    ctxMap, \* context -> its stack of Provider values
    ctxSeen, \* the useContext calls of the last renderToString call: value wanted and value returned
    ctxThrown, \* the last renderToString call threw
    ctxRenders, \* number of renderToString calls so far
    \* a build of a project whose units may share base names
    nmPages, \* the page files findPages returns, in its order
    nmIslands, \* the island specifiers the pages register
    nmProd, \* isProd of that process
    nmSame, \* the island modules of equal base name have equal bytes
    nmTodo, \* the units still to be built
    nmRecords, \* unit -> the output files its cache record names
    nmDist, \* the output files that exist
    nmClash, \* outputs of one unit's record that building or collecting another unit wrote or removed
    \* watch mode / serve --hot
    timer,       \* id held by the timer variable (0: never set)
    pending,     \* ids of timers that are armed
    building, queued,
    inflight,    \* build() invocations started by the trigger and not settled
    expiredMid,  \* timer expiries seen while the current build was in flight
    followUp,    \* expiries of the last build that a re-run is still owed for
    lastOk,      \* the last settled build resolved (FALSE: it threw)
    triggers, started,
    owed,        \* how the changes no build has started after were observed
    served,      \* how the changes that a build has started after were observed
    lastFile,    \* the fileName of the last watcher event a build caused
    ownTriggers  \* calls of trigger() made for files the build wrote itself

diskVars == <<fs, dist, cacheFile, isProd, htmlRefs, bundle>>
optVars == <<purgeFlag, classKeep, closureFails, restArgs>>
eqVars == <<eqA, eqB, eqOut>>
localVars == <<pc, todo, pageFiles, cache, nextPages, renderedPages,
               islandSourcesByPage, unchangedPagePaths, allIslands, pagesToWrite>>
islandVars == <<paths, cssOutputs, nextCache, changedSources>>
histVars == <<writes, deletes, saves, renderCalls, compiled, distAtStart,
              cacheAtStart, cleanRun, sinceBuild, edits, compileLog, delta,
              runDelta, purgeCalls>>
cssVars == <<optCss, optHtml, optKeep, optPurge, optOut, optUnused>>
srvVars == <<srvUrl, srvStatus, srvRead>>
reloadVars == <<notifyTimer, notifyArmed, liveClients, seenClients, joinedAt,
                received, distWrites, groups, closedClients, lateWrite>>
registryVars == <<islandRegistry, islandCounter, islandCalls, sinceReset, got,
                  gotFrom, history>>
lifeVars == <<currentMounts, currentCleanups, frames, mountsArr, cleanupsArr,
              returnedCalls, ownMounts, ownCleanups, outsideCbs, nextCb,
              invokedCbs, cleanupMap, mounted, unmounted>>
signalVars == <<refVal, refSubs, effects, currentEffect, effectStack, assigns, missed, idleRuns>>
ctxVars == <<ctxMap, ctxSeen, ctxThrown, ctxRenders>>
nameVars == <<nmPages, nmIslands, nmProd, nmSame, nmTodo, nmRecords, nmDist, nmClash>>
sideVars == <<cssVars, srvVars, reloadVars, registryVars, lifeVars,
             signalVars,
             ctxVars,
             nameVars>>
buildVars == <<diskVars, optVars, localVars, islandVars, histVars, eqVars,
               sideVars>>
watchVars == <<timer, pending, building, queued, inflight, expiredMid,
               followUp, lastOk, triggers, started, owed, served, lastFile,
               ownTriggers>>
vars == <<buildVars, watchVars>>

\* ------------------------------------------------------------------------
\* Content Hasher, Dependency Snapshot
\* ------------------------------------------------------------------------
CACHE_VERSION == 1

\* hashFile returns null for a file that does not exist
Null == 0

\* hash(s): the 8 hex digits of md5(s), named by the text it digests
hash(s) == s

\* md5 of the file's bytes, named by the content it digests
hashFile(f) == IF fs[f] = 0 THEN Null ELSE fs[f]

computeDepHashes(depPaths) == [f \in depPaths |-> hashFile(f)]

\* a comparison that looks up the entries of a in b and never counts
depHashesEqualOneWay(a, b) ==
    \A f \in DOMAIN a : f \in DOMAIN b /\ b[f] = a[f]

\* a comparison that stops after the entry counts
depHashesEqualByLength(a, b) ==
    Cardinality(DOMAIN a) = Cardinality(DOMAIN b)

depHashesEqual(a, b) ==
    /\ Cardinality(DOMAIN a) = Cardinality(DOMAIN b)
    /\ \A f \in DOMAIN a : f \in DOMAIN b /\ b[f] = a[f]

\* A snapshot as it is written down: its [path, hash] entries in insertion
\* order, no path twice.
SnapFiles == {PageOrder[1]} \cup CssFiles
SnapValues == {Null} \cup CssTexts
SnapEntries == {<<f, v>> : f \in SnapFiles, v \in SnapValues}

RECURSIVE EntryLists(_)
EntryLists(n) ==
    IF n = 0 THEN {<<>>}
    ELSE LET shorter == EntryLists(n - 1) IN
         shorter \cup
         {Append(l, e) : l \in {x \in shorter : Len(x) = n - 1},
                         e \in SnapEntries}

Snapshots ==
    {l \in EntryLists(MaxEntries) :
        \A i, j \in 1..Len(l) : i # j => l[i][1] # l[j][1]}

\* the object the entries make: path -> hash
fromEntries(l) ==
    [f \in {l[i][1] : i \in 1..Len(l)} |->
        (CHOOSE e \in Range(l) : e[1] = f)[2]]

\* the snapshot of the same paths taken from the disk now (build 694-697,
\* buildIslands 442-445)
currentDepHashes(prev) == [f \in DOMAIN prev.depHashes |-> hashFile(f)]

\* ------------------------------------------------------------------------
\* Output paths
\* ------------------------------------------------------------------------
\* an absent (undefined) path
NoPath == [dir |-> "", name |-> "", h |-> 0, ext |-> ""]

getPageRoute(pagePath) == baseName(pagePath)

getPageHtmlOutPath(pagePath) ==
    IF getPageRoute(pagePath) = "index"
    THEN [dir |-> "", name |-> "index", h |-> 0, ext |-> "html"]
    ELSE [dir |-> getPageRoute(pagePath), name |-> "index", h |-> 0, ext |-> "html"]

\* `.${hash(content)}` in production, "" in development
fileHash(content) == IF isProd THEN hash(content) ELSE 0

PageCssName(route, minified) ==
    [dir |-> "", name |-> route, h |-> fileHash(minified), ext |-> "css"]

IslandJsName(srcPath) ==
    [dir |-> "islands", name |-> baseName(srcPath), h |-> fileHash(fs[srcPath]), ext |-> "js"]

IslandCssName(srcPath, minified) ==
    [dir |-> "islands", name |-> baseName(srcPath), h |-> fileHash(minified), ext |-> "css"]

outputExistsForUrl(outDir, urlPath) == urlPath # NoPath /\ urlPath \in outDir

\* the files removeOutputForUrl removes from outDir for a set of urls
removeOutputForUrl(outDir, urls) == (urls \ {NoPath}) \cap outDir

\* `${filePath}.br`
brOf(o) == [o EXCEPT !.ext = IF o.ext = "js" THEN "js.br" ELSE "css.br"]

\* the files compressDir(outDir, ".js") and compressDir(outDir, ".css") write
compressDir(d) == {brOf(o) : o \in {x \in d : x.ext \in {"js", "css"}}}

\* ------------------------------------------------------------------------
\* Cache Store
\* ------------------------------------------------------------------------
mode == IF isProd THEN "production" ELSE "development"

\* the for loop of parsePurgeFlag over the tokens that are left, purge being
\* "none" (undefined), "on" (true) or "off" (false)
RECURSIVE parsePurgeFlagLoop(_, _)
parsePurgeFlagLoop(args, purge) ==
    IF args = <<>> THEN purge
    ELSE parsePurgeFlagLoop(Tail(args),
             IF Head(args) = "--purge" THEN "on"
             ELSE IF Head(args) = "--no-purge" THEN "off"
             ELSE purge)

\* a parse in which the first flag wins
parsePurgeFlagFirst(args) ==
    LET flags == SelectSeq(args, LAMBDA t : t \in {"--purge", "--no-purge"})
    IN  IF flags = <<>> THEN "none"
        ELSE IF Head(flags) = "--purge" THEN "on" ELSE "off"
parsePurgeFlag(args) == parsePurgeFlagLoop(args, "none")

\* typeof purge === "boolean" ? purge : isProd
shouldPurge == IF purgeFlag = "none" THEN isProd ELSE purgeFlag = "on"

\* md5 of the JSON text of the keep list, named by the list it digests
classKeepHash(keep) == keep

profile == [purge |-> shouldPurge, classKeepHash |-> classKeepHash(classKeep)]

emptyCache ==
    [version |-> CACHE_VERSION, mode |-> mode, purge |-> profile.purge,
     classKeepHash |-> profile.classKeepHash,
     pages |-> EmptyMap, islands |-> EmptyMap]

\* a cache file whose text JSON.parse throws on, kept in the shape of a
\* cache object so that the file always holds one kind of value
Garbled ==
    [version |-> CACHE_VERSION - 2, mode |-> "", purge |-> FALSE,
     classKeepHash |-> "", pages |-> EmptyMap, islands |-> EmptyMap]

\* a load that does not compare the purge setting
loadCacheIgnoringPurge ==
    IF cacheFile = {} THEN emptyCache
    ELSE LET raw == CHOOSE c \in cacheFile : TRUE IN
         IF raw = Garbled THEN emptyCache
         ELSE IF \/ raw.version # CACHE_VERSION
                 \/ raw.mode # mode
                 \/ raw.classKeepHash # profile.classKeepHash
         THEN emptyCache
         ELSE [emptyCache EXCEPT !.pages = raw.pages, !.islands = raw.islands]

\* cacheFile is {} (no file) or {raw}
loadCache ==
    IF cacheFile = {} THEN emptyCache
    ELSE LET raw == CHOOSE c \in cacheFile : TRUE IN
         IF raw = Garbled THEN emptyCache
         ELSE IF \/ raw.version # CACHE_VERSION
            \/ raw.mode # mode
            \/ raw.purge # profile.purge
            \/ raw.classKeepHash # profile.classKeepHash
         THEN emptyCache
         ELSE [emptyCache EXCEPT !.pages = raw.pages, !.islands = raw.islands]

\* ------------------------------------------------------------------------
\* Page Builder
\* ------------------------------------------------------------------------
findPages == SelectSeq(PageOrder, LAMBDA p : fs[p] # 0)

\* renderPage returns null for a module without default export
NullPage == [path |-> "", html |-> 0, islands |-> <<>>, css |-> 0, depHashes |-> EmptyMap]

\* processPageFile: the CSS collected (only from files that exist) and the
\* snapshot of the bundle's inputs plus the collected CSS paths
processPageFile(pagePath) ==
    LET collected == PageTable[fs[pagePath]].css /\ fs[PageCssFile] # 0 IN
    [css |-> IF collected THEN fs[PageCssFile] ELSE 0,
     depHashes |-> computeDepHashes({pagePath} \cup
                       (IF collected THEN {PageCssFile} ELSE {}))]

\* esbuild.build, the dynamic import or renderToString throws (622-631)
renderThrows(pagePath) == fs[pagePath] = BrokenPage

\* a renderPage that does not look for the default export
renderPageAnyModule(pagePath) ==
    LET module == PageTable[fs[pagePath]]
        processed == processPageFile(pagePath)
    IN [path |-> pagePath,
        html |-> fs[pagePath],
        islands |-> module.isl,
        css |-> processed.css,
        depHashes |-> processed.depHashes]

renderPage(pagePath) ==
    LET module == PageTable[fs[pagePath]]
        processed == processPageFile(pagePath)
    IN IF ~module.def THEN NullPage
       ELSE [path |-> pagePath,
             html |-> fs[pagePath],
             islands |-> module.isl,
             css |-> processed.css,
             depHashes |-> processed.depHashes]

\* ------------------------------------------------------------------------
\* build(): discovery, cache load, removal of the outputs of vanished pages
\* ------------------------------------------------------------------------
Idle == pc \in {"idle", "done", "failed"}

ResetLocals ==
    /\ nextPages' = EmptyMap
    /\ renderedPages' = EmptyMap
    /\ islandSourcesByPage' = EmptyMap
    /\ unchangedPagePaths' = <<>>
    /\ allIslands' = <<>>
    /\ pagesToWrite' = <<>>
    /\ paths' = EmptyMap
    /\ cssOutputs' = EmptyMap
    /\ nextCache' = EmptyMap
    /\ changedSources' = {}
    /\ saves' = 0
    /\ renderCalls' = {}
    /\ compiled' = {}
    /\ compileLog' = <<>>
    /\ purgeCalls' = {}

\* a removal that forgets the HTML file
stalePageOutputsCssOnly(prevPages, pageSet) ==
    {prevPages[p].cssPath : p \in (DOMAIN prevPages) \ pageSet}

\* the recorded outputs of the pages of prevPages that are not page files now
stalePageOutputs(prevPages, pageSet) ==
    UNION {{prevPages[p].cssPath, prevPages[p].htmlPath} :
              p \in (DOMAIN prevPages) \ pageSet}

\* a build that removes the outputs of vanished pages before it looks at the
\* number of page files
BuildStartRemovingFirst ==
    /\ Idle
    /\ ResetLocals
    /\ pageFiles' = findPages
    /\ distAtStart' = dist
    /\ cacheAtStart' = cacheFile
    /\ cleanRun' = (sinceBuild = "clean")
    /\ runDelta' = IF sinceBuild = "none" THEN {"first"} ELSE delta
    /\ writes' = {}
    /\ IF Len(findPages) = 0
       THEN LET removed == removeOutputForUrl(dist,
                    stalePageOutputs(loadCache.pages, Range(findPages))) IN
            /\ pc' = "done"
            /\ cache' = emptyCache
            /\ todo' = <<>>
            /\ deletes' = removed
            /\ dist' = dist \ removed
       ELSE LET removed == removeOutputForUrl(dist,
                    stalePageOutputs(loadCache.pages, Range(findPages))) IN
            /\ pc' = "classify"
            /\ cache' = loadCache
            /\ todo' = findPages
            /\ deletes' = removed
            /\ dist' = dist \ removed
    /\ htmlRefs' = Restrict(htmlRefs, dist')
    /\ UNCHANGED <<fs, cacheFile, isProd, bundle, sinceBuild, edits, delta,
                   optVars, eqVars, sideVars,
                   watchVars>>

BuildStart ==
    /\ Idle
    /\ ResetLocals
    /\ pageFiles' = findPages
    /\ distAtStart' = dist
    /\ cacheAtStart' = cacheFile
    /\ cleanRun' = (sinceBuild = "clean")
    /\ runDelta' = IF sinceBuild = "none" THEN {"first"} ELSE delta
    /\ writes' = {}
    /\ IF Len(findPages) = 0
       THEN /\ pc' = "done"
            /\ cache' = emptyCache
            /\ todo' = <<>>
            /\ deletes' = {}
            /\ dist' = dist
       ELSE LET removed == removeOutputForUrl(dist,
                    stalePageOutputs(loadCache.pages, Range(findPages))) IN
            /\ pc' = "classify"
            /\ cache' = loadCache
            /\ todo' = findPages
            /\ deletes' = removed
            /\ dist' = dist \ removed
    /\ htmlRefs' = Restrict(htmlRefs, dist')
    /\ UNCHANGED <<fs, cacheFile, isProd, bundle, sinceBuild, edits, delta,
                   optVars, eqVars, sideVars,
                   watchVars>>

\* one iteration of the classification loop (build 689-716)
ClassifyPage ==
    /\ pc = "classify"
    /\ todo # <<>>
    /\ LET pagePath == Head(todo)
           prevPages == cache.pages
           sourceChanged ==
               IF pagePath \in DOMAIN prevPages
               THEN ~depHashesEqual(prevPages[pagePath].depHashes,
                                    currentDepHashes(prevPages[pagePath]))
               ELSE TRUE
           page == renderPage(pagePath)
       IN
       /\ todo' = Tail(todo)
       /\ pc' = IF sourceChanged /\ renderThrows(pagePath) THEN "failed" ELSE pc
       /\ IF sourceChanged
          THEN /\ renderCalls' = renderCalls \cup {pagePath}
               /\ unchangedPagePaths' = unchangedPagePaths
               /\ IF renderThrows(pagePath) \/ page = NullPage
                  THEN UNCHANGED <<renderedPages, islandSourcesByPage, allIslands>>
                  ELSE /\ renderedPages' = Put(renderedPages, pagePath, page)
                       /\ islandSourcesByPage' =
                              Put(islandSourcesByPage, pagePath, page.islands)
                       /\ allIslands' = AddKeys(allIslands, page.islands)
          ELSE /\ islandSourcesByPage' =
                      Put(islandSourcesByPage, pagePath, prevPages[pagePath].islandSources)
               /\ allIslands' = AddKeys(allIslands, prevPages[pagePath].islandSources)
               /\ unchangedPagePaths' = Append(unchangedPagePaths, pagePath)
               /\ UNCHANGED <<renderedPages, renderCalls>>
    /\ UNCHANGED <<diskVars, pageFiles, cache, nextPages, pagesToWrite,
                   islandVars, writes, deletes, saves, compiled, distAtStart,
                   cacheAtStart, cleanRun, sinceBuild, edits, compileLog, purgeCalls, delta,
                   runDelta, optVars, eqVars, sideVars,
                   watchVars>>

\* the recorded outputs of the islands of prevIslands no page reaches now
staleIslandOutputs(prevIslands, reachable) ==
    UNION {{prevIslands[s].jsPath, prevIslands[s].cssPath} :
              s \in (DOMAIN prevIslands) \ reachable}

\* build 718-723, then the call of buildIslands
RemoveStaleIslands ==
    /\ pc = "classify"
    /\ todo = <<>>
    /\ LET removed == removeOutputForUrl(dist,
               staleIslandOutputs(cache.islands, Range(allIslands))) IN
       /\ dist' = dist \ removed
       /\ deletes' = deletes \cup removed
    /\ bundle' = Restrict(bundle, dist')
    /\ pc' = "islands"
    /\ todo' = allIslands
    /\ UNCHANGED <<fs, cacheFile, isProd, htmlRefs, pageFiles, cache, nextPages,
                   renderedPages, islandSourcesByPage, unchangedPagePaths,
                   allIslands, pagesToWrite, islandVars, writes, saves,
                   renderCalls, compiled, distAtStart, cacheAtStart, cleanRun,
                   sinceBuild, edits, compileLog, purgeCalls, delta, runDelta,
                   optVars,
                   eqVars, sideVars,
                   watchVars>>

\* ------------------------------------------------------------------------
\* Island Builder: one iteration of the loop of buildIslands (431-537)
\* ------------------------------------------------------------------------
\* a reuse check that does not look for the recorded CSS file
canReuseJsOnly(islandCache, src) ==
    /\ src \in DOMAIN islandCache
    /\ depHashesEqual(islandCache[src].depHashes, currentDepHashes(islandCache[src]))
    /\ outputExistsForUrl(dist, islandCache[src].jsPath)

\* the reuse check (440-449)
canReuse(islandCache, src) ==
    /\ src \in DOMAIN islandCache
    /\ depHashesEqual(islandCache[src].depHashes, currentDepHashes(islandCache[src]))
    /\ outputExistsForUrl(dist, islandCache[src].jsPath)
    /\ (islandCache[src].cssPath = NoPath
           \/ outputExistsForUrl(dist, islandCache[src].cssPath))

\* the urls handed to removeOutputForUrl after a rebuild (526-529)
previousOutputs(islandCache, src, jsPath, cssPath) ==
    IF /\ src \in DOMAIN islandCache
       /\ (islandCache[src].jsPath # jsPath \/ islandCache[src].cssPath # cssPath)
    THEN {islandCache[src].jsPath, islandCache[src].cssPath}
    ELSE {}

\* minifyCss: lightningcss output for an island's CSS, named by the CSS text
minifyCss(css) == css

\* lightningcss.transform throws on a text it cannot parse; minifyCss and
\* optimizeCss call it without a try
transformThrows(css) == css = BadCss

\* esbuild.build throws on the island module (475-485)
esbuildThrows(srcPath) == fs[srcPath] = BrokenIsland

\* runClosureCompiler returns false and leaves no temp file (137-148)
closureFailed(src) == src \in closureFails

\* who wrote the bytes at jsPath when the Closure pass is over (494-512)
bundleAfterClosure(src) ==
    IF isProd /\ ~closureFailed(src) THEN "closure" ELSE "esbuild"

BuildIsland ==
    /\ pc = "islands"
    /\ todo # <<>>
    /\ LET src == Head(todo)
           srcPath == resolveIslandSrcPath(src)
           prevIslands == cache.islands
           collected == IslandTable[fs[srcPath]].css /\ fs[IslandCssFile] # 0
           jsPath == IslandJsName(srcPath)
           cssThrows == collected /\ isProd /\ transformThrows(fs[IslandCssFile])
           cssPath == IF collected
                      THEN IslandCssName(srcPath, minifyCss(fs[IslandCssFile]))
                      ELSE NoPath
           written == {jsPath, cssPath} \ {NoPath}
           removed == removeOutputForUrl(dist \cup written,
                          previousOutputs(prevIslands, src, jsPath, cssPath))
           depPaths == {srcPath} \cup (IF collected THEN {IslandCssFile} ELSE {})
       IN
       /\ todo' = Tail(todo)
       /\ IF fs[srcPath] = 0
          THEN /\ changedSources' = changedSources \cup {src}
               /\ UNCHANGED <<pc, paths, cssOutputs, nextCache, dist, writes,
                              deletes, compiled, compileLog, bundle>>
          ELSE IF canReuse(prevIslands, src)
          THEN /\ paths' = Put(paths, src, prevIslands[src].jsPath)
               /\ cssOutputs' = IF prevIslands[src].cssPath # NoPath
                                THEN Put(cssOutputs, src, prevIslands[src].cssPath)
                                ELSE cssOutputs
               /\ nextCache' = Put(nextCache, src, prevIslands[src])
               /\ UNCHANGED <<pc, changedSources, dist, writes, deletes,
                              compiled, compileLog, bundle>>
          ELSE IF esbuildThrows(srcPath)
          THEN /\ pc' = "failed"
               /\ compileLog' = Append(compileLog, src)
               /\ UNCHANGED <<paths, cssOutputs, nextCache, changedSources,
                              dist, writes, deletes, compiled, bundle>>
          ELSE IF cssThrows
          THEN /\ pc' = "failed"
               /\ compileLog' = Append(compileLog, src)
               /\ compiled' = compiled \cup {src}
               /\ dist' = dist \cup {jsPath}
               /\ writes' = writes \cup {jsPath}
               /\ bundle' = Put(bundle, jsPath, "esbuild")
               /\ UNCHANGED <<paths, cssOutputs, nextCache, changedSources,
                              deletes>>
          ELSE /\ paths' = Put(paths, src, jsPath)
               /\ cssOutputs' = IF cssPath # NoPath
                                THEN Put(cssOutputs, src, cssPath)
                                ELSE cssOutputs
               /\ changedSources' = changedSources \cup {src}
               /\ compiled' = compiled \cup {src}
               /\ compileLog' = Append(compileLog, src)
               /\ dist' = (dist \cup written) \ removed
               /\ writes' = writes \cup written
               /\ deletes' = deletes \cup removed
               /\ bundle' = Restrict(Put(bundle, jsPath, bundleAfterClosure(src)), dist')
               /\ nextCache' = Put(nextCache, src,
                      [srcPath |-> srcPath,
                       depHashes |-> computeDepHashes(depPaths),
                       jsPath |-> jsPath,
                       cssPath |-> cssPath])
               /\ pc' = pc
    /\ UNCHANGED <<fs, cacheFile, isProd, htmlRefs, pageFiles, cache, nextPages,
                   renderedPages, islandSourcesByPage, unchangedPagePaths,
                   allIslands, pagesToWrite, saves, renderCalls, distAtStart,
                   cacheAtStart, cleanRun, sinceBuild, edits, delta, runDelta,
                   purgeCalls, optVars, eqVars, sideVars,
                   watchVars>>

\* ------------------------------------------------------------------------
\* build(): promotion of unchanged pages (733-748)
\* ------------------------------------------------------------------------
\* a promotion test that forgets the changed islands
mustWriteIgnoringIslands(pagePath) ==
    LET prevPage == cache.pages[pagePath] IN
    \/ prevPage.htmlPath \notin dist
    \/ ~(prevPage.cssPath = NoPath \/ outputExistsForUrl(dist, prevPage.cssPath))

\* islandChanged || !hasHtmlOutput || !hasCssOutput
mustWrite(pagePath) ==
    LET prevPage == cache.pages[pagePath]
        islandChanged ==
            \E src \in Range(islandSourcesByPage[pagePath]) : src \in changedSources
        hasCssOutput ==
            prevPage.cssPath = NoPath \/ outputExistsForUrl(dist, prevPage.cssPath)
        hasHtmlOutput == prevPage.htmlPath \in dist
    IN islandChanged \/ ~hasHtmlOutput \/ ~hasCssOutput

PromotePages ==
    /\ pc = "islands"
    /\ todo = <<>>
    /\ LET rendered == SelectSeq(pageFiles, LAMBDA p : p \in DOMAIN renderedPages)
           promoted == SelectSeq(unchangedPagePaths, mustWrite)
           kept == {p \in Range(unchangedPagePaths) : ~mustWrite(p)}
       IN
       /\ pagesToWrite' = rendered \o promoted
       /\ todo' = rendered \o promoted
       /\ nextPages' = [p \in kept |-> cache.pages[p]]
    /\ pc' = "write"
    /\ UNCHANGED <<diskVars, pageFiles, cache, renderedPages, islandSourcesByPage,
                   unchangedPagePaths, allIslands, islandVars, histVars, optVars,
                   eqVars, sideVars,
                   watchVars>>

\* ------------------------------------------------------------------------
\* build(): one iteration of the write loop (750-804)
\* ------------------------------------------------------------------------
\* optimizeCss returns the text untouched without purge in development;
\* otherwise the lightningcss output, named by the CSS text it was made from
\* and by whether the unused symbols were dropped from it
optimizeCss(css, purge) == IF purge THEN css + BadCss ELSE css

\* document URLs that take an island's path from the previous cache when it
\* has a record there
documentRefsFromCache(page, cssPath) ==
    [scripts |-> {IF src \in DOMAIN cache.islands THEN cache.islands[src].jsPath
                  ELSE paths[src] : src \in Range(page.islands) \cap DOMAIN paths},
     links |-> ({cssOutputs[src] : src \in Range(page.islands) \cap DOMAIN cssOutputs}
                   \cup {cssPath}) \ {NoPath}]

\* the <script src> and <link href> URLs wrapDocument puts into the page
documentRefs(page, cssPath) ==
    [scripts |-> {paths[src] : src \in Range(page.islands) \cap DOMAIN paths},
     links |-> ({cssOutputs[src] : src \in Range(page.islands) \cap DOMAIN cssOutputs}
                   \cup {cssPath}) \ {NoPath}]

WritePage ==
    /\ pc = "write"
    /\ todo # <<>>
    /\ LET pagePath == Head(todo)
           known == pagePath \in DOMAIN renderedPages
           throwsInRender == ~known /\ renderThrows(pagePath)
           page == IF known THEN renderedPages[pagePath] ELSE renderPage(pagePath)
           throwsInCss == /\ ~throwsInRender
                          /\ page # NullPage
                          /\ page.css # 0
                          /\ (shouldPurge \/ isProd)
                          /\ transformThrows(page.css)
           hasPrev == pagePath \in DOMAIN cache.pages
           cssPath == IF page.css # 0
                      THEN PageCssName(getPageRoute(pagePath),
                                       optimizeCss(page.css, shouldPurge))
                      ELSE NoPath
           removed == IF hasPrev /\ cache.pages[pagePath].cssPath # NoPath
                         /\ cache.pages[pagePath].cssPath # cssPath
                      THEN removeOutputForUrl(dist, {cache.pages[pagePath].cssPath})
                      ELSE {}
           outPath == getPageHtmlOutPath(pagePath)
           written == {outPath, cssPath} \ {NoPath}
       IN
       /\ todo' = Tail(todo)
       /\ renderCalls' = IF known THEN renderCalls ELSE renderCalls \cup {pagePath}
       /\ purgeCalls' = IF ~throwsInRender /\ page # NullPage /\ page.css # 0
                        THEN purgeCalls \cup {[page |-> pagePath, purge |-> shouldPurge]}
                        ELSE purgeCalls
       /\ IF throwsInRender
          THEN /\ pc' = "failed"
               /\ UNCHANGED <<renderedPages, islandSourcesByPage, nextPages, dist,
                              writes, deletes, htmlRefs>>
          ELSE IF page = NullPage
          THEN UNCHANGED <<pc, renderedPages, islandSourcesByPage, nextPages, dist,
                           writes, deletes, htmlRefs>>
          ELSE IF throwsInCss
          THEN /\ pc' = "failed"
               /\ renderedPages' = Put(renderedPages, pagePath, page)
               /\ islandSourcesByPage' =
                      Put(islandSourcesByPage, pagePath, page.islands)
               /\ UNCHANGED <<nextPages, dist, writes, deletes, htmlRefs>>
          ELSE /\ renderedPages' = Put(renderedPages, pagePath, page)
               /\ islandSourcesByPage' =
                      Put(islandSourcesByPage, pagePath, page.islands)
               /\ dist' = (dist \ removed) \cup written
               /\ writes' = writes \cup written
               /\ deletes' = deletes \cup removed
               /\ htmlRefs' = Put(htmlRefs, outPath, documentRefs(page, cssPath))
               /\ nextPages' = Put(nextPages, pagePath,
                      [depHashes |-> page.depHashes,
                       islandSources |-> page.islands,
                       htmlPath |-> outPath,
                       cssPath |-> cssPath])
               /\ pc' = pc
    /\ UNCHANGED <<fs, cacheFile, isProd, bundle, pageFiles, cache,
                   unchangedPagePaths, allIslands, pagesToWrite, islandVars,
                   saves, compiled, distAtStart, cacheAtStart, cleanRun,
                   sinceBuild, edits, compileLog, delta, runDelta, optVars,
                   eqVars, sideVars,
                   watchVars>>

\* ------------------------------------------------------------------------
\* build(): saveCache (806-813), then compression and return (815-825)
\* ------------------------------------------------------------------------
\* a saveCache call that keeps the island records of the previous cache
SaveCacheKeepingIslands ==
    /\ pc = "write"
    /\ todo = <<>>
    /\ cacheFile' = {[version |-> CACHE_VERSION,
                      mode |-> mode,
                      purge |-> profile.purge,
                      classKeepHash |-> profile.classKeepHash,
                      pages |-> nextPages,
                      islands |->
                          [src \in DOMAIN nextCache \cup DOMAIN cache.islands |->
                              IF src \in DOMAIN nextCache THEN nextCache[src]
                              ELSE cache.islands[src]]]}
    /\ saves' = saves + 1
    /\ pc' = "saved"
    /\ UNCHANGED <<fs, dist, isProd, htmlRefs, bundle, todo, pageFiles, cache,
                   nextPages, renderedPages, islandSourcesByPage,
                   unchangedPagePaths, allIslands, pagesToWrite, islandVars,
                   writes, deletes, renderCalls, compiled, distAtStart,
                   cacheAtStart, cleanRun, sinceBuild, edits, compileLog, purgeCalls, delta,
                   runDelta, optVars, eqVars, sideVars,
                   watchVars>>

SaveCache ==
    /\ pc = "write"
    /\ todo = <<>>
    /\ cacheFile' = {[version |-> CACHE_VERSION,
                      mode |-> mode,
                      purge |-> profile.purge,
                      classKeepHash |-> profile.classKeepHash,
                      pages |-> nextPages,
                      islands |-> nextCache]}
    /\ saves' = saves + 1
    /\ pc' = "saved"
    /\ UNCHANGED <<fs, dist, isProd, htmlRefs, bundle, todo, pageFiles, cache,
                   nextPages, renderedPages, islandSourcesByPage,
                   unchangedPagePaths, allIslands, pagesToWrite, islandVars,
                   writes, deletes, renderCalls, compiled, distAtStart,
                   cacheAtStart, cleanRun, sinceBuild, edits, compileLog, purgeCalls, delta,
                   runDelta, optVars, eqVars, sideVars,
                   watchVars>>

Finish ==
    /\ pc = "saved"
    /\ LET written == IF isProd THEN compressDir(dist) ELSE {} IN
       /\ dist' = dist \cup written
       /\ writes' = writes \cup written
    /\ pc' = "done"
    /\ sinceBuild' = "clean"
    /\ delta' = {}
    /\ UNCHANGED <<fs, cacheFile, isProd, htmlRefs, bundle, todo, pageFiles,
                   cache, nextPages, renderedPages, islandSourcesByPage,
                   unchangedPagePaths, allIslands, pagesToWrite, islandVars,
                   deletes, saves, renderCalls, compiled, distAtStart,
                   cacheAtStart, cleanRun, edits, compileLog, purgeCalls, runDelta, optVars,
                   eqVars, sideVars,
                   watchVars>>

\* ------------------------------------------------------------------------
\* The world between two runs of build()
\* ------------------------------------------------------------------------
Changed ==
    /\ Idle
    /\ edits < MaxEdits
    /\ edits' = edits + 1
    /\ pc' = "idle"
    /\ sinceBuild' = IF sinceBuild = "none" THEN "none" ELSE "dirty"
    /\ UNCHANGED <<todo, pageFiles, cache, nextPages, renderedPages,
                   islandSourcesByPage, unchangedPagePaths, allIslands,
                   pagesToWrite, islandVars, writes, deletes, saves,
                   renderCalls, compiled, distAtStart, cacheAtStart, cleanRun,
                   compileLog, purgeCalls, runDelta, eqVars, sideVars,
                   watchVars>>

\* a source file is written, created or deleted
EditSource ==
    /\ \E f \in Files : \E c \in Contents(f) \cup {0} :
          /\ c # fs[f]
          /\ fs' = [fs EXCEPT ![f] = c]
          /\ delta' = delta \cup {f}
    /\ Changed
    /\ UNCHANGED <<dist, cacheFile, isProd, htmlRefs, bundle, optVars>>

\* somebody deletes a file from the output directory
RemoveOutput ==
    /\ \E o \in dist : dist' = dist \ {o}
    /\ htmlRefs' = Restrict(htmlRefs, dist')
    /\ bundle' = Restrict(bundle, dist')
    /\ delta' = delta \cup {"dist"}
    /\ Changed
    /\ UNCHANGED <<fs, cacheFile, isProd, optVars>>

\* the next process runs with the other NODE_ENV
SwitchNodeEnv ==
    /\ isProd' = ~isProd
    /\ delta' = delta \cup {"env"}
    /\ Changed
    /\ UNCHANGED <<fs, dist, cacheFile, htmlRefs, bundle, optVars>>

\* the next process is started with another --purge / --no-purge flag
SetPurgeFlag ==
    /\ \E args \in {<<>>, <<"--purge">>, <<"--no-purge">>} :
          /\ parsePurgeFlag(args) # purgeFlag
          /\ restArgs' = args
          /\ purgeFlag' = parsePurgeFlag(args)
    /\ delta' = delta \cup {"flag"}
    /\ Changed
    /\ UNCHANGED <<fs, dist, cacheFile, isProd, htmlRefs, bundle, classKeep,
                   closureFails>>

\* fleax.class.keep of package.json is edited
EditKeepList ==
    /\ \E i \in 1..Len(KeepLists) : KeepLists[i] # classKeep /\ classKeep' = KeepLists[i]
    /\ delta' = delta \cup {"keep"}
    /\ Changed
    /\ UNCHANGED <<fs, dist, cacheFile, isProd, htmlRefs, bundle, purgeFlag,
                   closureFails, restArgs>>

\* .fleax-cache.json is truncated, comes from an older CACHE_VERSION, or is
\* deleted
DamageCache ==
    /\ cacheFile # {}
    /\ cacheFile # {Garbled}
    /\ LET raw == CHOOSE c \in cacheFile : TRUE IN
       cacheFile' \in {{Garbled}, {[raw EXCEPT !.version = CACHE_VERSION - 1]}, {}}
    /\ delta' = delta \cup {"cache"}
    /\ Changed
    /\ UNCHANGED <<fs, dist, isProd, htmlRefs, bundle, optVars>>

\* a source file is saved with content its tool throws on
BreakSource ==
    /\ \E f \in Files :
          /\ fs[f] # Broken(f)
          /\ fs' = [fs EXCEPT ![f] = Broken(f)]
          /\ delta' = delta \cup {f}
    /\ Changed
    /\ UNCHANGED <<dist, cacheFile, isProd, htmlRefs, bundle, optVars>>

\* the Closure Compiler starts or stops failing on some island bundles
BreakClosure ==
    /\ \E S \in (SUBSET IslandSrcs) \ {closureFails} : closureFails' = S
    /\ delta' = delta \cup {"closure"}
    /\ Changed
    /\ UNCHANGED <<fs, dist, cacheFile, isProd, htmlRefs, bundle, purgeFlag,
                   classKeep, restArgs>>

\* ------------------------------------------------------------------------
\* watchMode.trigger / serve.triggerBuild
\* ------------------------------------------------------------------------
\* clearTimeout(timer); timer = setTimeout(..., 120)
setTimer ==
    /\ timer' = timer + 1
    /\ pending' = (pending \ {timer}) \cup {timer + 1}

\* the watcher callback lets a source change through and calls trigger()
Trigger ==
    /\ triggers < MaxTriggers
    /\ triggers' = triggers + 1
    /\ setTimer
    /\ owed' = owed \cup {IF building THEN "inflight"
                          ELSE IF pending # {} THEN "debounce" ELSE "idle"}
    /\ UNCHANGED <<building, queued, inflight, expiredMid, followUp, lastOk,
                   started, served, lastFile, ownTriggers, buildVars>>

\* the timer callback without its `if (building)` guard
TimerExpiresUnguarded ==
    /\ \E id \in pending : pending' = pending \ {id}
    /\ building' = TRUE
    /\ inflight' = inflight + 1
    /\ started' = started + 1
    /\ followUp' = 0
    /\ served' = served \cup owed
    /\ owed' = {}
    /\ UNCHANGED <<queued, expiredMid>>
    /\ UNCHANGED <<timer, lastOk, triggers, lastFile, ownTriggers, buildVars>>

\* the timer callback that returns during a build without setting queued
TimerExpiresDropping ==
    /\ \E id \in pending : pending' = pending \ {id}
    /\ IF building
       THEN UNCHANGED <<queued, expiredMid, building, inflight, started,
                        followUp, owed, served>>
       ELSE /\ building' = TRUE
            /\ inflight' = inflight + 1
            /\ started' = started + 1
            /\ followUp' = 0
            /\ served' = served \cup owed
            /\ owed' = {}
            /\ UNCHANGED <<queued, expiredMid>>
    /\ UNCHANGED <<timer, lastOk, triggers, lastFile, ownTriggers, buildVars>>

\* the timer callback up to its first await
TimerExpires ==
    /\ \E id \in pending : pending' = pending \ {id}
    /\ IF building
       THEN /\ queued' = TRUE
            /\ expiredMid' = expiredMid + 1
            /\ UNCHANGED <<building, inflight, started, followUp, owed,
                           served>>
       ELSE /\ building' = TRUE
            /\ inflight' = inflight + 1
            /\ started' = started + 1
            /\ followUp' = 0
            /\ served' = served \cup owed
            /\ owed' = {}
            /\ UNCHANGED <<queued, expiredMid>>
    /\ UNCHANGED <<timer, lastOk, triggers, lastFile, ownTriggers, buildVars>>

\* the finally block without its call of trigger()
BuildSettlesNoRerun ==
    /\ inflight > 0
    /\ \E ok \in BOOLEAN : lastOk' = ok
    /\ inflight' = inflight - 1
    /\ building' = FALSE
    /\ followUp' = expiredMid
    /\ expiredMid' = 0
    /\ queued' = FALSE
    /\ UNCHANGED <<timer, pending>>
    /\ UNCHANGED <<triggers, started, owed, served, lastFile, ownTriggers,
                   buildVars>>

\* the finally block that resets building only when build() resolved
BuildSettlesStuck ==
    /\ inflight > 0
    /\ \E ok \in BOOLEAN : lastOk' = ok /\ building' = ~ok
    /\ inflight' = inflight - 1
    /\ followUp' = expiredMid
    /\ expiredMid' = 0
    /\ IF queued
       THEN /\ queued' = FALSE
            /\ setTimer
       ELSE UNCHANGED <<queued, timer, pending>>
    /\ UNCHANGED <<triggers, started, owed, served, lastFile, ownTriggers,
                   buildVars>>

\* build() resolves or rejects: catch logs, finally runs
BuildSettles ==
    /\ inflight > 0
    /\ \E ok \in BOOLEAN : lastOk' = ok
    /\ inflight' = inflight - 1
    /\ building' = FALSE
    /\ followUp' = expiredMid
    /\ expiredMid' = 0
    /\ IF queued
       THEN /\ queued' = FALSE
            /\ setTimer
       ELSE UNCHANGED <<queued, timer, pending>>
    /\ UNCHANGED <<triggers, started, owed, served, lastFile, ownTriggers,
                   buildVars>>

\* ------------------------------------------------------------------------
\* Specifications
\* ------------------------------------------------------------------------
ProjectInit ==
    /\ fs = [f \in Files |->
                CASE f = "pages/a.tsx" -> 2
                  [] f = "pages/b.tsx" -> 3
                  [] f = "src/counter.ts" -> 2
                  [] OTHER -> 1]
    /\ dist = {}
    /\ cacheFile = {}
    /\ isProd \in BOOLEAN
    /\ htmlRefs = EmptyMap
    /\ bundle = EmptyMap
    /\ purgeFlag = "none"
    /\ classKeep = KeepLists[1]
    /\ closureFails = {}
    /\ restArgs = <<>>
    /\ pc = "idle"
    /\ todo = <<>>
    /\ pageFiles = <<>>
    /\ cache = [version |-> CACHE_VERSION, mode |-> "development", purge |-> FALSE,
                classKeepHash |-> KeepLists[1], pages |-> EmptyMap, islands |-> EmptyMap]
    /\ nextPages = EmptyMap
    /\ renderedPages = EmptyMap
    /\ islandSourcesByPage = EmptyMap
    /\ unchangedPagePaths = <<>>
    /\ allIslands = <<>>
    /\ pagesToWrite = <<>>
    /\ paths = EmptyMap
    /\ cssOutputs = EmptyMap
    /\ nextCache = EmptyMap
    /\ changedSources = {}
    /\ writes = {}
    /\ deletes = {}
    /\ saves = 0
    /\ renderCalls = {}
    /\ compiled = {}
    /\ distAtStart = {}
    /\ cacheAtStart = {}
    /\ cleanRun = FALSE
    /\ sinceBuild = "none"
    /\ edits = 0
    /\ compileLog = <<>>
    /\ purgeCalls = {}
    /\ delta = {}
    /\ runDelta = {}
    /\ timer = 0
    /\ pending = {}
    /\ building = FALSE
    /\ queued = FALSE
    /\ inflight = 0
    /\ expiredMid = 0
    /\ followUp = 0
    /\ lastOk = TRUE
    /\ triggers = 0
    /\ started = 0
    /\ owed = {}
    /\ served = {}
    /\ lastFile = <<>>
    /\ ownTriggers = 0

\* no call of depHashesEqual has been made
EqIdle ==
    /\ eqA = <<>>
    /\ eqB = <<>>
    /\ eqOut = "none"

\* no call of optimizeCss has been made
CssIdle ==
    /\ optCss = {}
    /\ optHtml = <<>>
    /\ optKeep = <<>>
    /\ optPurge = FALSE
    /\ optOut = "none"
    /\ optUnused = {}

\* no request has reached the dev server
SrvIdle ==
    /\ srvUrl = <<>>
    /\ srvStatus = 0
    /\ srvRead = <<>>

Clients == {"c1", "c2"}

\* the dev server has just started
ReloadIdle ==
    /\ notifyTimer = 0
    /\ notifyArmed = {}
    /\ liveClients = {}
    /\ seenClients = {}
    /\ closedClients = {}
    /\ lateWrite = FALSE
    /\ joinedAt = [c \in Clients |-> 0]
    /\ received = [c \in Clients |-> 0]
    /\ distWrites = 0
    /\ groups = 0

\* the island module has just been loaded
RegistryIdle ==
    /\ islandRegistry = <<>>
    /\ islandCounter = 0
    /\ islandCalls = 0
    /\ sinceReset = {}
    /\ got = [live |-> FALSE, keys |-> <<>>]
    /\ gotFrom = {}
    /\ history = <<>>

\* the lifecycle module has just been loaded
LifeIdle ==
    /\ currentMounts = 0
    /\ currentCleanups = 0
    /\ frames = <<>>
    /\ mountsArr = <<>>
    /\ cleanupsArr = <<>>
    /\ returnedCalls = {}
    /\ ownMounts = <<>>
    /\ ownCleanups = <<>>
    /\ outsideCbs = {}
    /\ nextCb = 0
    /\ invokedCbs = {}
    /\ cleanupMap = EmptyMap
    /\ mounted = {}
    /\ unmounted = {}

\* the signals module has just been loaded
SignalIdle ==
    /\ refVal = <<>>
    /\ refSubs = <<>>
    /\ effects = <<>>
    /\ currentEffect = 0
    /\ effectStack = <<>>
    /\ assigns = 0
    /\ missed = {}
    /\ idleRuns = FALSE

\* the context module has just been loaded
ContextIdle ==
    /\ ctxMap = EmptyMap
    /\ ctxSeen = <<>>
    /\ ctxThrown = FALSE
    /\ ctxRenders = 0

\* no such build has been made
NamesIdle ==
    /\ nmPages = <<>>
    /\ nmIslands = <<>>
    /\ nmProd = FALSE
    /\ nmSame = FALSE
    /\ nmTodo = <<>>
    /\ nmRecords = EmptyMap
    /\ nmDist = {}
    /\ nmClash = {}

\* the parts of the state that the specification named part does not use
\* are at rest
SideIdle(part) ==
    /\ IF part = "css" THEN TRUE ELSE CssIdle
    /\ IF part = "serve" THEN TRUE ELSE SrvIdle
    /\ IF part = "reload" THEN TRUE ELSE ReloadIdle
    /\ IF part = "islands" THEN TRUE ELSE RegistryIdle
    /\ IF part = "lifecycle" THEN TRUE ELSE LifeIdle
    /\ IF part = "signals" THEN TRUE ELSE SignalIdle
    /\ IF part = "context" THEN TRUE ELSE ContextIdle
    /\ IF part = "names" THEN TRUE ELSE NamesIdle

Init ==
    /\ ProjectInit
    /\ EqIdle
    /\ SideIdle("build")

Next ==
    \/ BuildStart
    \/ ClassifyPage
    \/ RemoveStaleIslands
    \/ BuildIsland
    \/ PromotePages
    \/ WritePage
    \/ SaveCache
    \/ Finish
    \/ EditSource
    \/ RemoveOutput
    \/ SwitchNodeEnv

Spec == Init /\ [][Next]_vars

\* the steps of one run of build()
BuildSteps ==
    \/ BuildStart
    \/ ClassifyPage
    \/ RemoveStaleIslands
    \/ BuildIsland
    \/ PromotePages
    \/ WritePage
    \/ SaveCache
    \/ Finish

\* runs of build() between which the profile and the cache file change
ResetNext ==
    \/ BuildSteps
    \/ EditSource
    \/ SwitchNodeEnv
    \/ SetPurgeFlag
    \/ EditKeepList
    \/ DamageCache

ResetSpec == Init /\ [][ResetNext]_vars

\* runs of build() over sources that can make esbuild, the import, the
\* renderer or lightningcss throw
FailNext ==
    \/ BuildSteps
    \/ EditSource
    \/ BreakSource

FailSpec == Init /\ [][FailNext]_vars

\* runs of build() with a Closure Compiler that can fail
ClosureNext ==
    \/ BuildSteps
    \/ EditSource
    \/ BreakClosure

ClosureSpec == Init /\ [][ClosureNext]_vars

\* depHashesEqual is called on two snapshots
Compare ==
    /\ eqOut = "none"
    /\ eqOut' = IF depHashesEqual(fromEntries(eqA), fromEntries(eqB))
                THEN "true" ELSE "false"
    /\ UNCHANGED <<eqA, eqB, diskVars, optVars, localVars, islandVars,
                   histVars, sideVars, watchVars>>

\* every pair of snapshots of at most MaxEntries entries
SnapInit ==
    /\ ProjectInit
    /\ isProd = FALSE
    /\ eqA \in Snapshots
    /\ eqB \in Snapshots
    /\ eqOut = "none"
    /\ SideIdle("snapshots")

SnapNext == Compare

SnapSpec == SnapInit /\ [][SnapNext]_vars

WatchNext ==
    \/ Trigger
    \/ TimerExpires
    \/ BuildSettles

WatchSpec == Init /\ [][WatchNext]_vars

WatchFair == WatchSpec /\ WF_vars(TimerExpires) /\ WF_vars(BuildSettles)

\* ------------------------------------------------------------------------
\* Properties of the rebuild trigger
\* ------------------------------------------------------------------------
\* C1: under every interleaving of triggers, timer expiries and build
\* completions (resolved or rejected), at most one build() started by the
\* trigger is in progress.
C1_OneBuildInFlight == inflight <= 1

\* a timer expired while a build was in flight, after an earlier build threw
C1_Witness == inflight = 1 /\ queued /\ ~lastOk /\ started >= 2

\* C2: a timer expiring while a build is in flight starts no build and sets
\* queued; once the build has settled exactly one timer is armed for all the
\* expiries of that build, the build it starts leaves no timer armed, and
\* that build does start.
C2_OneFollowUp ==
    /\ [](building /\ expiredMid > 0 => queued)
    /\ [](followUp > 0 => ~building /\ Cardinality(pending) = 1)
    /\ [][building /\ Cardinality(pending') < Cardinality(pending)
             => started' = started /\ inflight' = inflight /\ queued']_vars
    /\ [][started' # started => started' = started + 1 /\ pending' = {}]_vars
    /\ (followUp > 0 ~> building)

\* two timers expired during one build and one re-run is armed for both
C2_Witness == followUp >= 2 /\ Cardinality(pending) = 1 /\ ~queued

\* ------------------------------------------------------------------------
\* Vocabulary of the build properties
\* ------------------------------------------------------------------------
\* build() has run to its end and saved a cache
Completed == pc = "done" /\ saves = 1

\* the object in .fleax-cache.json
savedCache == CHOOSE c \in cacheFile : TRUE

\* the object that was in .fleax-cache.json when build() was called
persistedCache == CHOOSE c \in cacheAtStart : TRUE

\* a file of the record's snapshot does not hash to the recorded value now
Stale(record) == \E f \in DOMAIN record.depHashes : hashFile(f) # record.depHashes[f]

outputsOf(record, jsOrHtml) == {jsOrHtml, record.cssPath} \ {NoPath}

\* the island sources the render of the page files on disk registers
Referenced ==
    UNION {Range(PageTable[fs[p]].isl) : p \in {q \in Pages : fs[q] # 0 /\ PageTable[fs[q]].def}}

HtmlWritten(p) == p \in DOMAIN renderedPages /\ getPageHtmlOutPath(p) \in writes

\* ------------------------------------------------------------------------
\* C3: staleness
\* ------------------------------------------------------------------------
\* C3 as stated: every page and island with a cache record and a snapshot
\* file whose content changed (or that was deleted) is rebuilt by the next
\* build, and every page that uses an island rebuilt in that build is rebuilt.
C3_AsStated ==
    Completed =>
        /\ \A p \in DOMAIN cache.pages : Stale(cache.pages[p]) => HtmlWritten(p)
        /\ \A s \in DOMAIN cache.islands : Stale(cache.islands[s]) => s \in compiled
        /\ \A p \in DOMAIN islandSourcesByPage :
              Range(islandSourcesByPage[p]) \cap compiled # {} => HtmlWritten(p)

\* C3 amended: a record with a changed or deleted snapshot file is never
\* reused. A page that is still a page file is rendered again, and written
\* again when it has a default export, else it has no record in the saved
\* cache; a page whose file is gone has no record. An island that a page
\* still reaches and whose source file exists is compiled again; otherwise it
\* has no record in the saved cache. Every page that uses an island compiled
\* in this build is written again.
C3_StaleNeverReused ==
    Completed =>
        /\ \A p \in DOMAIN cache.pages : Stale(cache.pages[p]) =>
              IF fs[p] = 0 THEN p \notin DOMAIN savedCache.pages
              ELSE /\ p \in renderCalls
                   /\ IF PageTable[fs[p]].def
                      THEN /\ HtmlWritten(p)
                           /\ p \in DOMAIN savedCache.pages
                           /\ ~Stale(savedCache.pages[p])
                      ELSE p \notin DOMAIN savedCache.pages
        /\ \A s \in DOMAIN cache.islands : Stale(cache.islands[s]) =>
              IF s \in Referenced /\ fs[resolveIslandSrcPath(s)] # 0
              THEN s \in compiled /\ ~Stale(savedCache.islands[s])
              ELSE s \notin DOMAIN savedCache.islands
        /\ \A p \in DOMAIN islandSourcesByPage :
              Range(islandSourcesByPage[p]) \cap compiled # {} => HtmlWritten(p)

\* a stale page is written again, a stale island is compiled again, and a
\* page whose own snapshot still matched is written again because of it
C3_Witness ==
    /\ Completed
    /\ \E p \in DOMAIN cache.pages : Stale(cache.pages[p]) /\ HtmlWritten(p)
    /\ \E s \in DOMAIN cache.islands :
          /\ Stale(cache.islands[s])
          /\ s \in compiled
          /\ \E p \in Range(unchangedPagePaths) :
                s \in Range(islandSourcesByPage[p]) /\ HtmlWritten(p)

\* ------------------------------------------------------------------------
\* C4: idempotence
\* ------------------------------------------------------------------------
\* C4: a build that follows a completed build with no change in between
\* writes and deletes nothing in the output directory and saves a cache with
\* the same page and island keys.
C4_Idempotent ==
    (pc = "done" /\ cleanRun) =>
        /\ writes = {}
        /\ deletes = {}
        /\ saves = 1
        /\ DOMAIN savedCache.pages = DOMAIN persistedCache.pages
        /\ DOMAIN savedCache.islands = DOMAIN persistedCache.islands

\* ------------------------------------------------------------------------
\* C5, C6, C7: the saved cache
\* ------------------------------------------------------------------------
\* C5: when the cache is saved every output it records exists on disk.
C5_RecordedOutputsExist ==
    pc = "saved" =>
        /\ \A p \in DOMAIN savedCache.pages :
              outputsOf(savedCache.pages[p], savedCache.pages[p].htmlPath) \subseteq dist
        /\ \A s \in DOMAIN savedCache.islands :
              outputsOf(savedCache.islands[s], savedCache.islands[s].jsPath) \subseteq dist

\* C6: one build calls saveCache at most once and writes or deletes nothing
\* in the output directory after it.
C6_NothingAfterSave ==
    /\ [](saves <= 1)
    /\ [][pc = "saved" => dist' = dist /\ writes' = writes /\ deletes' = deletes]_vars

\* C7: in the cache passed to saveCache every islandSources entry of every
\* page record is a key of the islands map.
C7_IslandSourcesHaveRecords ==
    pc = "saved" =>
        \A p \in DOMAIN savedCache.pages :
            Range(savedCache.pages[p].islandSources) \subseteq DOMAIN savedCache.islands

\* ------------------------------------------------------------------------
\* C8: garbage collection of a removed page
\* ------------------------------------------------------------------------
\* what C8 promises for the record of a page whose file is gone, given the
\* island records that were known with it
PageCollected(p, record, islandRecords) ==
    /\ outputsOf(record, record.htmlPath) \cap dist = {}
    /\ cacheFile # {} /\ p \notin DOMAIN savedCache.pages
    /\ \A s \in (Range(record.islandSources) \cap DOMAIN islandRecords) \ Referenced :
          outputsOf(islandRecords[s], islandRecords[s].jsPath) \cap dist = {}

C9_OnlyOrphansRemoved ==
    pc \in {"islands", "write"} =>
        \A s \in compiled \cap DOMAIN cache.islands :
            LET prev == cache.islands[s]
                cur == nextCache[s]
            IN (prev.jsPath # cur.jsPath \/ prev.cssPath # cur.cssPath) =>
                  /\ (outputsOf(prev, prev.jsPath) \ outputsOf(cur, cur.jsPath)) \cap dist = {}
                  /\ outputsOf(cur, cur.jsPath) \subseteq dist

\* ------------------------------------------------------------------------
\* C10: one outcome per page
\* ------------------------------------------------------------------------
\* the condition of reuse, read from the disk as build() found it
ReuseCondition(p) ==
    /\ p \in DOMAIN cache.pages
    /\ ~Stale(cache.pages[p])
    /\ outputsOf(cache.pages[p], cache.pages[p].htmlPath) \subseteq distAtStart
    /\ Range(cache.pages[p].islandSources) \cap changedSources = {}

Reused(p) ==
    /\ p \notin renderCalls
    /\ p \in DOMAIN cache.pages
    /\ p \in DOMAIN savedCache.pages
    /\ savedCache.pages[p] = cache.pages[p]
    /\ outputsOf(cache.pages[p], cache.pages[p].htmlPath) \cap (writes \cup deletes) = {}

Written(p) ==
    /\ p \in renderCalls
    /\ HtmlWritten(p)
    /\ p \in DOMAIN savedCache.pages
    /\ savedCache.pages[p].htmlPath \in dist

Skipped(p) ==
    /\ p \in renderCalls
    /\ ~PageTable[fs[p]].def
    /\ ~HtmlWritten(p)
    /\ p \notin DOMAIN savedCache.pages

\* C10: every discovered page is reused, written or skipped, exactly one of
\* them; it is reused exactly under the reuse condition, and every other
\* page with a default export is rendered and written.
C10_OneOutcomePerPage ==
    Completed =>
        \A p \in Range(pageFiles) :
            /\ Reused(p) <=> ReuseCondition(p)
            /\ (~ReuseCondition(p) /\ PageTable[fs[p]].def) => Written(p)
            /\ (~ReuseCondition(p) /\ ~PageTable[fs[p]].def) => Skipped(p)
            /\ ~(Reused(p) /\ Written(p))
            /\ ~(Reused(p) /\ Skipped(p))
            /\ ~(Written(p) /\ Skipped(p))

\* one page is reused while another, whose own snapshot matched, is written
\* again because an island it uses changed
C10_Witness ==
    /\ Completed
    /\ \E p \in Range(pageFiles) : Reused(p)
    /\ \E p \in Range(unchangedPagePaths) :
          /\ Written(p)
          /\ cache.pages[p].htmlPath \in distAtStart
          /\ Range(cache.pages[p].islandSources) \cap changedSources # {}

\* ------------------------------------------------------------------------
\* C11: reuse of an island
\* ------------------------------------------------------------------------
\* the condition of reuse of an island, read from the disk as build() found it
IslandReuseCondition(s) ==
    /\ s \in DOMAIN cache.islands
    /\ ~Stale(cache.islands[s])
    /\ outputsOf(cache.islands[s], cache.islands[s].jsPath) \subseteq distAtStart

\* the previous record is taken over as it is and no file of it is touched
IslandReused(s) ==
    /\ s \notin compiled
    /\ s \notin changedSources
    /\ s \in DOMAIN nextCache
    /\ nextCache[s] = cache.islands[s]
    /\ paths[s] = cache.islands[s].jsPath
    /\ outputsOf(cache.islands[s], cache.islands[s].jsPath) \cap (writes \cup deletes) = {}

\* C11: an island whose source file exists is reused (same record, same
\* paths, no file written) exactly when it has a previous record, every file
\* of the recorded snapshot hashes to the recorded value and the recorded JS
\* file and the recorded CSS file (when one is recorded) exist; in every
\* other case it is compiled and its source is in changedSources.
C11_ReuseExactlyWhenIntact ==
    pc \in {"write", "saved", "done"} =>
        \A s \in Range(allIslands) :
            fs[resolveIslandSrcPath(s)] # 0 =>
                /\ IslandReused(s) <=> IslandReuseCondition(s)
                /\ ~IslandReuseCondition(s) => s \in compiled /\ s \in changedSources

\* one island is reused while another, whose snapshot matched and whose JS
\* file was there, is compiled again because its CSS file was missing
C11_Witness ==
    /\ pc = "done"
    /\ \E s \in Range(allIslands) : IslandReused(s)
    /\ \E t \in compiled \cap DOMAIN cache.islands :
          /\ ~Stale(cache.islands[t])
          /\ cache.islands[t].jsPath \in distAtStart
          /\ cache.islands[t].cssPath # NoPath
          /\ cache.islands[t].cssPath \notin distAtStart

\* ------------------------------------------------------------------------
\* C12: an island shared by several pages
\* ------------------------------------------------------------------------
\* the island JS files this build wrote for the island source s
JsWrittenFor(s) ==
    {o \in writes : o.dir = "islands" /\ o.ext = "js"
                       /\ o.name = baseName(resolveIslandSrcPath(s))}

\* the script URLs of the island source s in the HTML of page p
ScriptsFor(p, s) ==
    {u \in htmlRefs[getPageHtmlOutPath(p)].scripts :
        u.name = baseName(resolveIslandSrcPath(s))}

\* C12: one build calls esbuild at most once for an island source, however
\* many pages register it; a compiled island has exactly one JS file written
\* by the build and its one record names that file; every page written in
\* the build that uses the island carries exactly one script URL for it, the
\* same in every page.
C12_SharedIslandBuiltOnce ==
    pc \in {"write", "saved", "done"} =>
        \A s \in Range(allIslands) :
            /\ Cardinality({i \in 1..Len(compileLog) : compileLog[i] = s}) <= 1
            /\ s \in compiled =>
                  /\ JsWrittenFor(s) = {paths[s]}
                  /\ s \in DOMAIN nextCache /\ nextCache[s].jsPath = paths[s]
            /\ s \notin compiled => JsWrittenFor(s) = {}
            /\ \A p \in DOMAIN nextPages :
                  (HtmlWritten(p) /\ s \in Range(renderedPages[p].islands)
                       /\ s \in DOMAIN paths)
                      => ScriptsFor(p, s) = {paths[s]}

\* an island compiled in this build whose URL is in the HTML written for
\* two different pages
C12_Witness ==
    /\ pc = "done"
    /\ \E s \in compiled : \E p, q \in DOMAIN nextPages :
          /\ p # q
          /\ HtmlWritten(p) /\ HtmlWritten(q)
          /\ paths[s] \in htmlRefs[getPageHtmlOutPath(p)].scripts
          /\ paths[s] \in htmlRefs[getPageHtmlOutPath(q)].scripts

\* ------------------------------------------------------------------------
\* C13: cache reset
\* ------------------------------------------------------------------------
\* build() has found pages and called loadCache
Loaded == pc \in {"classify", "islands", "write", "saved"} \/ Completed

\* the cache file build() found is absent, unparsable, or written under
\* another version, mode, purge setting or keep list
Discarded ==
    \/ cacheAtStart = {}
    \/ persistedCache = Garbled
    \/ persistedCache.version # CACHE_VERSION
    \/ persistedCache.mode # mode
    \/ persistedCache.purge # shouldPurge
    \/ persistedCache.classKeepHash # classKeepHash(classKeep)

\* C13: loadCache returns a cache tagged with the current version, mode,
\* purge setting and keep-list hash; it is empty when the file is absent,
\* unparsable or differs in one of the four, and holds the persisted pages
\* and islands otherwise. After an empty load the build renders every
\* discovered page again (and writes it when it has a default export),
\* compiles every referenced island whose source file exists, and saves a
\* cache with the current version and profile.
C13_ResetRebuildsAll ==
    /\ Loaded =>
          /\ cache.version = CACHE_VERSION
          /\ cache.mode = mode
          /\ cache.purge = shouldPurge
          /\ cache.classKeepHash = classKeepHash(classKeep)
          /\ IF Discarded
             THEN cache.pages = EmptyMap /\ cache.islands = EmptyMap
             ELSE /\ cache.pages = persistedCache.pages
                  /\ cache.islands = persistedCache.islands
    /\ (pc = "done" /\ pageFiles # <<>>) => saves = 1
    /\ (Completed /\ Discarded) =>
          /\ \A p \in Range(pageFiles) :
                /\ p \in renderCalls
                /\ PageTable[fs[p]].def => Written(p)
          /\ \A s \in Referenced : fs[resolveIslandSrcPath(s)] # 0 => s \in compiled
          /\ savedCache.version = CACHE_VERSION
          /\ savedCache.mode = mode
          /\ savedCache.purge = shouldPurge
          /\ savedCache.classKeepHash = classKeepHash(classKeep)

\* a cache of the same version and mode is discarded for its purge setting
\* alone: its pages are written again and an island whose snapshot matched
\* and whose files were there is compiled again
C13_Witness ==
    /\ Completed
    /\ cacheAtStart # {}
    /\ persistedCache.version = CACHE_VERSION
    /\ persistedCache.mode = mode
    /\ persistedCache.classKeepHash = classKeepHash(classKeep)
    /\ persistedCache.purge # shouldPurge
    /\ \E p \in DOMAIN persistedCache.pages : Written(p)
    /\ \E s \in compiled \cap DOMAIN persistedCache.islands :
          /\ ~Stale(persistedCache.islands[s])
          /\ outputsOf(persistedCache.islands[s], persistedCache.islands[s].jsPath)
                 \subseteq distAtStart

\* ------------------------------------------------------------------------
\* C14: failure of one build unit
\* ------------------------------------------------------------------------
\* build() has returned or thrown
BuildEnded == pc \in {"done", "failed"}

\* renderPage threw for a page or esbuild threw for an island in this build
UnitFailed ==
    \/ \E p \in renderCalls : renderThrows(p)
    \/ \E s \in Range(compileLog) : esbuildThrows(resolveIslandSrcPath(s))

ModulesSound ==
    /\ \A f \in Pages \cup IslandFiles : fs[f] # Broken(f)
    /\ ~transformThrows(fs[IslandCssFile])

\* C18: when purge is on and lightningcss cannot parse the CSS of a rendered
\* page, build() still runs to its end and the page's CSS file is written
\* under the name of the unpurged output and recorded for the page.
C18_PurgeFailureFallsBack ==
    (BuildEnded /\ shouldPurge /\ ModulesSound) =>
        \A p \in DOMAIN renderedPages :
            transformThrows(renderedPages[p].css) =>
                /\ pc = "done"
                /\ saves = 1
                /\ p \in DOMAIN nextPages
                /\ nextPages[p].cssPath =
                       PageCssName(getPageRoute(p), optimizeCss(renderedPages[p].css, FALSE))
                /\ nextPages[p].cssPath \in dist

\* ------------------------------------------------------------------------
\* C15: skipped units
\* ------------------------------------------------------------------------
\* the HTML, CSS and JS files this build wrote under the base name of a unit
WrittenFor(dir, name) ==
    {o \in writes : o.dir = dir /\ o.name = name /\ o.ext \in {"html", "css", "js"}}

\* the island sources of this build whose source file does not exist
MissingIslands == {s \in Range(allIslands) : fs[resolveIslandSrcPath(s)] = 0}

\* C15: a build that finds pages saves its cache. A discovered page without
\* default export is rendered and skipped: the build writes no HTML and no
\* CSS for it and saves no record of it. An island whose source file does
\* not exist is not compiled, has no file written and no record. Every other
\* discovered page is reused or written and every other island of the build
\* has a record.
C15_SkippedUnitsLeaveNothing ==
    /\ (pc = "done" /\ pageFiles # <<>>) => saves = 1
    /\ Completed =>
          /\ \A p \in Range(pageFiles) :
                IF PageTable[fs[p]].def
                THEN Reused(p) \/ Written(p)
                ELSE /\ Skipped(p)
                     /\ getPageHtmlOutPath(p) \notin writes
                     /\ WrittenFor("", getPageRoute(p)) = {}
          /\ \A s \in Range(allIslands) :
                IF s \in MissingIslands
                THEN /\ s \notin compiled
                     /\ s \notin DOMAIN savedCache.islands
                     /\ WrittenFor("islands", baseName(resolveIslandSrcPath(s))) = {}
                ELSE s \in DOMAIN savedCache.islands

\* a page without default export and an island without source file are
\* skipped while another page, which registers the missing island, is
\* written and another island is compiled
C15_Witness ==
    /\ Completed
    /\ \E p \in Range(pageFiles) : Skipped(p)
    /\ \E s \in MissingIslands : \E q \in Range(pageFiles) :
          Written(q) /\ s \in Range(renderedPages[q].islands)
    /\ compiled # {}

\* ------------------------------------------------------------------------
\* C16: no page files
\* ------------------------------------------------------------------------
\* C16: a build that discovers no page file returns without calling
\* saveCache and without writing or deleting a file of the output directory;
\* the cache file is the one it found.
C16_NoPagesNoEffect ==
    (pc = "done" /\ pageFiles = <<>>) =>
        /\ saves = 0
        /\ writes = {}
        /\ deletes = {}
        /\ dist = distAtStart
        /\ cacheFile = cacheAtStart

\* every page file was deleted after a build that left records and outputs
C16_Witness ==
    /\ pc = "done"
    /\ pageFiles = <<>>
    /\ cacheAtStart # {}
    /\ DOMAIN persistedCache.pages # {}
    /\ DOMAIN persistedCache.islands # {}
    /\ \E p \in DOMAIN persistedCache.pages : persistedCache.pages[p].htmlPath \in dist

\* ------------------------------------------------------------------------
\* C17: failure of the Closure Compiler
\* ------------------------------------------------------------------------
\* the islands compiled in this production build on which the Closure
\* Compiler failed
ClosureFailures == IF isProd THEN compiled \cap closureFails ELSE {}

\* C17: in production, when the Closure Compiler fails on a compiled island,
\* the bundle esbuild wrote is in the output directory at the island's JS
\* path, the island's record and URL name that path, and the build goes on:
\* every other island of the build whose source file exists has a record,
\* every discovered page with a default export is reused or written, and the
\* cache is saved.
C17_ClosureFailureKeepsBundle ==
    /\ pc \in {"write", "saved", "done"} =>
          \A s \in ClosureFailures :
              LET jsPath == IslandJsName(resolveIslandSrcPath(s)) IN
              /\ jsPath \in dist
              /\ bundle[jsPath] = "esbuild"
              /\ paths[s] = jsPath
              /\ nextCache[s].jsPath = jsPath
    /\ (pc = "done" /\ ClosureFailures # {}) =>
          /\ saves = 1
          /\ \A t \in Range(allIslands) :
                fs[resolveIslandSrcPath(t)] # 0 => t \in DOMAIN savedCache.islands
          /\ \A p \in Range(pageFiles) :
                PageTable[fs[p]].def => Reused(p) \/ Written(p)

\* ------------------------------------------------------------------------
\* C19: a change of a page's CSS file alone
\* ------------------------------------------------------------------------
\* since the last build that ran to its end only src/page.css was edited,
\* and it exists
OnlyPageCssEdited == runDelta = {PageCssFile} /\ fs[PageCssFile] # 0

\* the page imports src/page.css, has a record, and the record was made from
\* another content of that file
PageCssChangedFor(p) ==
    /\ PageTable[fs[p]].def
    /\ PageTable[fs[p]].css
    /\ p \in DOMAIN cache.pages
    /\ PageCssFile \in DOMAIN cache.pages[p].depHashes
    /\ cache.pages[p].depHashes[PageCssFile] # hashFile(PageCssFile)

\* C19: when only a CSS file imported by a page changed since the last
\* build, the next build writes that page's CSS (in production under a new
\* hashed name, the old file deleted) and its HTML, writes and deletes no
\* file under islands/, compiles no island and saves every island record as
\* it was.
C19_PageCssChangeLeavesIslands ==
    (Completed /\ OnlyPageCssEdited) =>
        \A p \in Range(pageFiles) : PageCssChangedFor(p) =>
            /\ Written(p)
            /\ savedCache.pages[p].cssPath # NoPath
            /\ savedCache.pages[p].cssPath \in writes
            /\ isProd => \A o \in outputsOf(cache.pages[p], cache.pages[p].htmlPath) :
                            o.ext = "css" => (o # savedCache.pages[p].cssPath /\ o \notin dist)
            /\ \A o \in writes \cup deletes : o.dir # "islands"
            /\ compiled = {}
            /\ savedCache.islands = cache.islands

\* ------------------------------------------------------------------------
\* C20: equality of dependency snapshots
\* ------------------------------------------------------------------------
\* the entries of one snapshot are the entries of the other
SameEntries(l, m) == Range(l) = Range(m)

\* C20: depHashesEqual(a, b) is true exactly when a and b have the same
\* paths with the same hash for each path, whatever the order of their
\* entries, and depHashesEqual(b, a) gives the same answer; a snapshot and
\* one with an entry more are never equal.
C20_SnapshotEquality ==
    eqOut # "none" =>
        /\ (eqOut = "true") <=> SameEntries(eqA, eqB)
        /\ (eqOut = "true") <=> depHashesEqual(fromEntries(eqB), fromEntries(eqA))
        /\ Len(eqA) # Len(eqB) => eqOut = "false"

\* two snapshots of two entries that differ only in the order of their
\* entries, one of them for a missing file, compare equal
C20_Witness ==
    /\ eqOut = "true"
    /\ Len(eqA) = MaxEntries
    /\ eqA # eqB
    /\ \E i \in 1..Len(eqA) : eqA[i][2] = Null

\* ------------------------------------------------------------------------
\* CSS purge: the unused symbols optimizeCss hands to lightningcss
\* ------------------------------------------------------------------------
\* number of class names written in a stylesheet
MaxSymbols == 3
\* number of class tokens in the class attributes of a page
MaxTokens == 2
\* number of entries of fleax.class.keep
MaxKeep == 1

\* class names, as sequences of characters
btn == <<"b", "t", "n">>
btns == <<"b", "t", "n", "s">>
btnActive == <<"b", "t", "n", "-", "a", "c", "t", "i", "v", "e">>
card == <<"c", "a", "r", "d">>
twoXl == <<"2", "x", "l">>
ClassNames == {btn, btns, btnActive, card, twoXl}

\* [_a-zA-Z] and [0-9], as far as the class names use them
LetterChars == {"a", "b", "c", "d", "e", "i", "l", "n", "r", "s", "t", "v", "x", "_"}
DigitChars == {"2"}

\* String.prototype.startsWith
startsWith(s, prefix) ==
    Len(prefix) <= Len(s) /\ SubSeq(s, 1, Len(prefix)) = prefix

\* the last index of the run of [_a-zA-Z0-9-] that starts at index i
RECURSIVE symbolEnd(_, _)
symbolEnd(name, i) ==
    IF i < Len(name) /\ name[i + 1] \in LetterChars \cup DigitChars \cup {"-"}
    THEN symbolEnd(name, i + 1)
    ELSE i

\* what /\.(-?[_a-zA-Z]+[_a-zA-Z0-9-]*)/ captures after the dot of the
\* selector .name (<<>>: no match at this dot)
classSymbol(name) ==
    LET first == IF Len(name) >= 2 /\ name[1] = "-" /\ name[2] \in LetterChars
                 THEN 2 ELSE 1
    IN  IF first <= Len(name) /\ name[first] \in LetterChars
        THEN SubSeq(name, 1, symbolEnd(name, first))
        ELSE <<>>

extractClassSymbolsFromCss(css) == {classSymbol(n) : n \in css} \ {<<>>}

\* every class="..." attribute is matched and its value split at whitespace
extractClassesFromFirstAttr(html) ==
    IF html = <<>> THEN {} ELSE Range(html[1])
extractClassesFromHtml(html) ==
    UNION {Range(html[i]) : i \in DOMAIN html}

\* the test of the inner loop of optimizeCss
keepsSymbolByPrefix(symbol, token) ==
    \/ symbol = token
    \/ startsWith(symbol, token)
    \/ startsWith(token, symbol)
keepsSymbol(symbol, token) ==
    \/ symbol = token
    \/ startsWith(symbol, token \o <<"-">>)
    \/ startsWith(token, symbol \o <<"-">>)

expandedKeep(allSymbols, keep) ==
    keep \cup {symbol \in allSymbols : \E token \in keep : keepsSymbol(symbol, token)}

unusedSymbols(css, usedClasses, keepArray) ==
    LET keep == usedClasses \cup Range(keepArray)
        allSymbols == extractClassSymbolsFromCss(css)
    IN  {symbol \in allSymbols : symbol \notin expandedKeep(allSymbols, keep)}

\* optimizeCss(page.css, { purge, usedClasses, classKeep })
OptimizeCss ==
    /\ optOut = "none"
    /\ LET usedClasses == extractClassesFromHtml(optHtml)
       IN  IF ~optPurge /\ ~isProd
           THEN optOut' = "returned" /\ optUnused' = {}
           ELSE IF optPurge
                THEN /\ optOut' = "purged"
                     /\ optUnused' = unusedSymbols(optCss, usedClasses, optKeep)
                ELSE optOut' = "minified" /\ optUnused' = {}
    /\ UNCHANGED <<optCss, optHtml, optKeep, optPurge, diskVars, optVars,
                   localVars, islandVars, histVars, eqVars, srvVars, reloadVars,
                   registryVars, lifeVars, watchVars,
                   signalVars, ctxVars, nameVars>>

\* the values of a class attribute with at most n tokens
AttrValues(n) == UNION {[1..k -> ClassNames] : k \in 1..n}

\* the pages with at most n class tokens
RECURSIVE Htmls(_)
Htmls(n) ==
    {<<>>} \cup UNION {{<<v>> \o h : h \in Htmls(n - Len(v))} : v \in AttrValues(n)}

Sheets == {s \in SUBSET ClassNames : Cardinality(s) <= MaxSymbols}
KeepArrays == UNION {[1..k -> ClassNames] : k \in 0..MaxKeep}

\* every small stylesheet, page and keep list, purge on or off
PurgeInit ==
    /\ ProjectInit
    /\ EqIdle
    /\ SideIdle("css")
    /\ optCss \in Sheets
    /\ optHtml \in Htmls(MaxTokens)
    /\ optKeep \in KeepArrays
    /\ optPurge \in BOOLEAN
    /\ optOut = "none"
    /\ optUnused = {}

PurgeNext == OptimizeCss

PurgeSpec == PurgeInit /\ [][PurgeNext]_vars

\* the class tokens written in the class attributes of the page
HtmlTokens ==
    UNION {{optHtml[i][j] : j \in DOMAIN optHtml[i]} : i \in DOMAIN optHtml}
\* what has to stay: the classes of the page and of fleax.class.keep
KeepTokens == HtmlTokens \cup {optKeep[i] : i \in DOMAIN optKeep}
Purged == optOut = "purged"
\* some class that has to stay is the symbol, or one of the two is the other
\* followed by a dash and more
Covered(symbol) ==
    \E t \in KeepTokens :
        \/ symbol = t
        \/ startsWith(symbol, t \o <<"-">>)
        \/ startsWith(t, symbol \o <<"-">>)

\* C21: with purge on, the unused symbols handed to the minifier are exactly
\* the class symbols of the stylesheet that no class of the page or of the
\* keep list covers; for the symbols btn, btn-active, card and the keep set
\* {btn} only card is unused.
C21_UnusedExactlyUncovered ==
    Purged =>
        /\ optUnused = {s \in extractClassSymbolsFromCss(optCss) : ~Covered(s)}
        /\ (optCss = {btn, btnActive, card} /\ KeepTokens = {btn})
               => optUnused = {card}

C21_Witness ==
    /\ Purged
    /\ optCss = {btn, btnActive, card}
    /\ KeepTokens = {btn}
    /\ optUnused = {card}

\* C22: no class of a class attribute of the page and no entry of the keep
\* list is ever among the unused symbols handed to the minifier.
C22_KeptClassesNeverUnused ==
    optOut # "none" => \A c \in KeepTokens : c \notin optUnused

C22_Witness ==
    /\ Purged
    /\ optUnused # {}
    /\ Len(optHtml) > 1
    /\ optHtml[2][1] \in extractClassSymbolsFromCss(optCss)
    /\ optHtml[2][1] \notin Range(optHtml[1])
    /\ optKeep # <<>>
    /\ optKeep[1] \in extractClassSymbolsFromCss(optCss)

\* ------------------------------------------------------------------------
\* The purge decision: command line, NODE_ENV, cache profile
\* ------------------------------------------------------------------------
\* number of tokens after the command on the command line
MaxArgs == 2

ArgTokens == {"--purge", "--no-purge", "--hot"}
ArgLists == UNION {[1..k -> ArgTokens] : k \in 0..MaxArgs}

\* the next process is started as: fleax build <args>
SetCommandLine ==
    /\ \E args \in ArgLists \ {restArgs} :
          /\ restArgs' = args
          /\ purgeFlag' = parsePurgeFlag(args)
    /\ delta' = delta \cup {"flag"}
    /\ Changed
    /\ UNCHANGED <<fs, dist, cacheFile, isProd, htmlRefs, bundle, classKeep,
                   closureFails>>

\* runs of fleax build under every short command line and both NODE_ENVs
CliNext ==
    \/ BuildSteps
    \/ SetCommandLine
    \/ SwitchNodeEnv

CliSpec == Init /\ [][CliNext]_vars

HasFlag(flag) == \E i \in DOMAIN restArgs : restArgs[i] = flag

\* the purge flags of the command line, in order
PurgeFlags == SelectSeq(restArgs, LAMBDA t : t \in {"--purge", "--no-purge"})

\* the command line and NODE_ENV are those of the last build() call
SameProcess == pc # "idle"

\* the cache file found by build() parses and was saved under the purge
\* setting b
FoundCacheWithPurge(b) ==
    /\ cacheAtStart # {}
    /\ persistedCache # Garbled
    /\ persistedCache.purge = b

\* the purge setting d is what every optimizeCss call of the build is given,
\* what the saved cache records, and what a found cache must have been saved
\* under in order to be kept
DecisionIs(d) ==
    /\ \A c \in purgeCalls : c.purge = d
    /\ Completed => savedCache.purge = d
    /\ (Loaded /\ FoundCacheWithPurge(~d)) =>
           cache.pages = EmptyMap /\ cache.islands = EmptyMap

\* C23 as stated: purge is applied exactly when the command line gives
\* --purge, or gives neither flag and NODE_ENV is production; --no-purge
\* disables it even in production; the saved cache records the decision and
\* a run with another decision discards the cache.
C23_AsStated ==
    SameProcess =>
        /\ DecisionIs(HasFlag("--purge")
                      \/ (~HasFlag("--purge") /\ ~HasFlag("--no-purge") /\ isProd))
        /\ HasFlag("--no-purge") => \A c \in purgeCalls : ~c.purge

\* C23, amended: the last --purge / --no-purge flag of the command line
\* decides, and NODE_ENV = production decides when there is none; the saved
\* cache records the decision and a run with another decision discards the
\* cache.
C23_LastFlagDecides ==
    SameProcess =>
        DecisionIs(IF PurgeFlags = <<>> THEN isProd
                   ELSE PurgeFlags[Len(PurgeFlags)] = "--purge")

\* a production build started with --purge --no-purge writes unpurged CSS
\* over a cache that was saved by a purging build
C23_Witness ==
    /\ Completed
    /\ isProd
    /\ restArgs = <<"--purge", "--no-purge">>
    /\ purgeCalls # {}
    /\ FoundCacheWithPurge(TRUE)
    /\ persistedCache.mode = mode

\* ------------------------------------------------------------------------
\* The dev server: from the request URL to the file that is read
\* ------------------------------------------------------------------------
\* number of pieces of text after the leading slash of a request URL
MaxUrlLen == 4

\* The pieces of text a request URL is made of. Of the pieces a decoded
\* path is made of, none is a prefix of another one, so a path starts with
\* another path exactly when its list of pieces starts with the other's.
UrlPieces == {"/", "..", "%2e%2e", "%2f", "%", "?", "dist", "2", "a"}
Urls == {<<"/">> \o u : u \in UNION {[1..k -> UrlPieces] : k \in 0..MaxUrlLen}}

sep == "/"
\* resolve(join(cwd, "dist")), as its list of segments; a segment is the
\* list of the pieces of its name
outRoot == << <<"srv">>, <<"dist">> >>
\* the files and directories of the machine
DiskFiles == { << <<"srv">>, <<"dist">>, <<"index.html">> >>,
               << <<"srv">>, <<"dist">>, <<"a">> >>,
               << <<"srv">>, <<"dist", "2">> >>,
               << <<"srv">>, <<"a">> >> }
DiskDirs == { <<>>, << <<"srv">> >>, outRoot, << <<"srv">>, <<"dist">>, <<"2">> >> }
NoRead == <<>>

\* path.split("?")[0]
RECURSIVE beforeQuery(_)
beforeQuery(path) ==
    IF path = <<>> \/ Head(path) = "?" THEN <<>>
    ELSE <<Head(path)>> \o beforeQuery(Tail(path))

\* decodeURIComponent throws on a % that no two hex digits follow
decodeThrows(path) == \E i \in DOMAIN path : path[i] = "%"
decodeURIComponent(path) ==
    [i \in DOMAIN path |->
        CASE path[i] = "%2e%2e" -> ".."
          [] path[i] = "%2f" -> "/"
          [] OTHER -> path[i]]

\* path.replace(/^\/+/, "")
RECURSIVE stripSlashes(_)
stripSlashes(path) ==
    IF path # <<>> /\ Head(path) = "/" THEN stripSlashes(Tail(path)) ELSE path

\* the segments of a relative path, empty ones included
RECURSIVE splitSegments(_, _)
splitSegments(path, current) ==
    IF path = <<>> THEN <<current>>
    ELSE IF Head(path) = sep
         THEN <<current>> \o splitSegments(Tail(path), <<>>)
         ELSE splitSegments(Tail(path), Append(current, Head(path)))

\* path.resolve(from, to) for a relative to: ".." removes the last segment
\* (none at the root of the file system), an empty segment changes nothing
RECURSIVE resolveSegments(_, _)
resolveSegments(from, segments) ==
    IF segments = <<>> THEN from
    ELSE LET segment == Head(segments) IN
         resolveSegments(
             IF segment = <<>> THEN from
             ELSE IF segment = <<"..">>
                  THEN (IF from = <<>> THEN from ELSE SubSeq(from, 1, Len(from) - 1))
                  ELSE Append(from, segment),
             Tail(segments))
resolve(from, to) == resolveSegments(from, splitSegments(to, <<>>))

\* the text of an absolute path
RECURSIVE pathText(_)
pathText(segments) ==
    IF segments = <<>> THEN <<>>
    ELSE <<sep>> \o Head(segments) \o pathText(Tail(segments))

\* a guard that forgets the separator after the root
insideRootByPrefix(filePath) ==
    filePath = outRoot \/ startsWith(pathText(filePath), pathText(outRoot))
\* filePath === outRoot || filePath.startsWith(`${outRoot}${sep}`)
insideRoot(filePath) ==
    filePath = outRoot \/ startsWith(pathText(filePath), pathText(outRoot) \o <<sep>>)

\* the request handler of the dev server, for a request that is not the
\* live-reload stream
HandleRequest ==
    /\ srvStatus = 0
    /\ \E url \in Urls :
        LET path == beforeQuery(url)
            decoded == decodeURIComponent(path)
            routed == IF decoded = <<"/">> THEN <<"/", "index.html">> ELSE decoded
            relativePath == stripSlashes(routed)
            filePath == resolve(outRoot, relativePath)
            target == IF filePath \in DiskDirs
                      THEN Append(filePath, <<"index.html">>)
                      ELSE filePath
        IN
        /\ srvUrl' = url
        /\ IF decodeThrows(path)
           THEN srvStatus' = 400 /\ srvRead' = NoRead
           ELSE IF ~insideRoot(filePath)
           THEN srvStatus' = 403 /\ srvRead' = NoRead
           ELSE IF target \notin DiskFiles
           THEN srvStatus' = 404 /\ srvRead' = NoRead
           ELSE srvStatus' = 200 /\ srvRead' = target
        /\ UNCHANGED <<diskVars, optVars, localVars, islandVars, histVars,
                       eqVars, cssVars, reloadVars, registryVars, lifeVars,
                       watchVars,
                   signalVars, ctxVars, nameVars>>

ServeInit ==
    /\ ProjectInit
    /\ EqIdle
    /\ SideIdle("serve")
    /\ SrvIdle

ServeNext == HandleRequest

ServeSpec == ServeInit /\ [][ServeNext]_vars

\* the request has been answered
Answered == srvStatus # 0
\* the path of the URL, without the query, decodes
Decodable ==
    \A i \in DOMAIN srvUrl :
        srvUrl[i] = "%" => \E j \in 1..(i - 1) : srvUrl[j] = "?"
\* the path the request resolves to
Resolved ==
    resolve(outRoot,
            stripSlashes(decodeURIComponent(beforeQuery(srvUrl))))
\* the path is the output root or a path through it
AtOrBelowRoot(segments) ==
    /\ Len(segments) >= Len(outRoot)
    /\ \A i \in 1..Len(outRoot) : segments[i] = outRoot[i]

\* C24: a file is read only for a request that resolves to the output root
\* or below it, and the file is then below the root; a request that
\* resolves outside the root is answered 403 without a read.
C24_NoReadOutsideRoot ==
    Answered =>
        /\ srvRead # NoRead =>
              /\ srvStatus = 200
              /\ Decodable
              /\ AtOrBelowRoot(Resolved)
              /\ AtOrBelowRoot(srvRead)
              /\ srvRead \in DiskFiles
        /\ (Decodable /\ ~AtOrBelowRoot(Resolved)) =>
              srvStatus = 403 /\ srvRead = NoRead

\* a percent-encoded .. that leads to a file next to the output root whose
\* name starts with the root's name
C24_Witness ==
    /\ srvStatus = 403
    /\ srvRead = NoRead
    /\ \E i \in DOMAIN srvUrl : srvUrl[i] = "%2e%2e"
    /\ Resolved = << <<"srv">>, <<"dist", "2">> >>
    /\ Resolved \in DiskFiles

\* ------------------------------------------------------------------------
\* The dev server: the debounced reload notification
\* ------------------------------------------------------------------------
\* number of changes one build makes under the output directory
MaxWrites == 3

\* the parts of the state the live-reload channel leaves alone
notReload == <<diskVars, optVars, localVars, islandVars, histVars, eqVars,
               cssVars, srvVars, registryVars, lifeVars, watchVars,
                   signalVars, ctxVars, nameVars>>

\* a client opens the event stream (a request for LIVE_RELOAD_PATH)
Connect ==
    /\ \E c \in Clients \ seenClients :
          /\ liveClients' = liveClients \cup {c}
          /\ seenClients' = seenClients \cup {c}
          /\ joinedAt' = [joinedAt EXCEPT ![c] = distWrites]
    /\ UNCHANGED <<notifyTimer, notifyArmed, received, distWrites, groups,
                   closedClients, lateWrite, notReload>>

\* the request of a client closes
\* a server without the close handler: the response stays in the set
CloseKeeping ==
    /\ \E c \in liveClients :
          /\ c \notin closedClients
          /\ closedClients' = closedClients \cup {c}
    /\ UNCHANGED <<notifyTimer, notifyArmed, liveClients, seenClients, joinedAt,
                   received, distWrites, groups, lateWrite, notReload>>
\* req.on("close"): liveClients.delete(res)
Close ==
    /\ \E c \in liveClients :
          /\ liveClients' = liveClients \ {c}
          /\ closedClients' = closedClients \cup {c}
    /\ UNCHANGED <<notifyTimer, notifyArmed, seenClients, joinedAt, received,
                   distWrites, groups, lateWrite, notReload>>

\* a notifyReload that does not clear the timer it replaces
notifyReloadKeeping(armed, held, id) == armed \cup {id}
\* notifyReload: clearTimeout(notifyTimer), then notifyTimer = setTimeout(.., 80)
notifyReload(armed, held, id) == (armed \ {held}) \cup {id}

\* the running build changes a file under dist and the watcher reports it
DistChange ==
    /\ distWrites < MaxWrites
    /\ distWrites' = distWrites + 1
    /\ notifyTimer' = notifyTimer + 1
    /\ notifyArmed' = notifyReload(notifyArmed, notifyTimer, notifyTimer + 1)
    /\ groups' = IF notifyArmed = {} THEN groups + 1 ELSE groups
    /\ UNCHANGED <<liveClients, seenClients, joinedAt, received, closedClients,
                   lateWrite, notReload>>

\* 80 ms have passed since a reload timer was armed: its callback writes
\* the reload event to every open stream
NotifyExpires ==
    /\ \E id \in notifyArmed : notifyArmed' = notifyArmed \ {id}
    /\ received' = [c \in Clients |->
                       IF c \in liveClients THEN received[c] + 1 ELSE received[c]]
    /\ lateWrite' = (lateWrite \/ liveClients \cap closedClients # {})
    /\ UNCHANGED <<notifyTimer, liveClients, seenClients, joinedAt, distWrites,
                   groups, closedClients, notReload>>

ReloadInit ==
    /\ ProjectInit
    /\ EqIdle
    /\ SideIdle("reload")
    /\ ReloadIdle

ReloadNext ==
    \/ Connect
    \/ Close
    \/ DistChange
    \/ NotifyExpires

\* the output changes of one build, the clients coming and going, and the
\* reload timer expiring at any moment it is armed
ReloadSpec == ReloadInit /\ [][ReloadNext]_vars

\* the clients that were connected before the build's first change and
\* still are
Listeners == {c \in liveClients : joinedAt[c] = 0}

\* C25 as stated: once the build has changed the output and no reload is
\* pending, every client that was connected all along has received exactly
\* one reload event.
C25_AsStated ==
    (distWrites >= 1 /\ notifyArmed = {}) =>
        \A c \in Listeners : received[c] = 1

\* C25, amended: every change leaves exactly one reload timer armed, the
\* one it has just set; reload events are written only by an expiring
\* timer, one to every open stream; so a client connected all along has
\* received one reload event for every group of changes that followed each
\* other while the timer was armed, the group whose timer is still armed
\* not counted.
C25_OneReloadPerGroup ==
    /\ notifyArmed \subseteq {notifyTimer}
    /\ distWrites >= 1 => groups >= 1
    /\ \A c \in Listeners : received[c] = groups - Cardinality(notifyArmed)
    /\ \A c \in Clients : received[c] <= groups

\* three changes of one build, one reload event
C25_Witness ==
    /\ distWrites = MaxWrites
    /\ groups = 1
    /\ notifyArmed = {}
    /\ \E c \in Listeners : received[c] = 1

\* ------------------------------------------------------------------------
\* The island registry and the island identifiers (src/island.ts)
\* ------------------------------------------------------------------------
\* number of Island calls between two resetIslands calls
MaxIslandCalls == 3
\* number of renderHtml calls in one behaviour
MaxRenders == 3

\* the parts of the state the island module leaves alone
notRegistry == <<diskVars, optVars, localVars, islandVars, histVars, eqVars,
                 cssVars, srvVars, reloadVars, lifeVars, watchVars,
                   signalVars, ctxVars, nameVars>>

IslandSrcNames == {"./a.ts", "./b.ts"}
\* the id prop of an island; "" stands for a missing one as well
IslandIdProps == {"", "hero"}

\* the pages renderHtml is called on: the Island elements of each, in the
\* order renderToString reaches them
IslandPages == {"home", "about"}
islandsOf(page) ==
    IF page = "home"
    THEN << [src |-> "./a.ts", id |-> ""], [src |-> "./b.ts", id |-> ""],
            [src |-> "./a.ts", id |-> ""] >>
    ELSE << [src |-> "./b.ts", id |-> "hero"], [src |-> "./b.ts", id |-> ""] >>

\* a resetIslands that clears the registry only
resetIslandsKeepingCounter == [registry |-> <<>>, counter |-> islandCounter]
\* resetIslands: islandRegistry.clear(); islandCounter = 0
resetIslands == [registry |-> <<>>, counter |-> 0]

\* Island, on the module state m: the state after the call and the
\* attributes of the wrapper element it returns
Island(m, props) ==
    LET counter == IF props.id # "" THEN m.counter ELSE m.counter + 1
        islandId == IF props.id # ""
                    THEN [text |-> props.id, n |-> 0]
                    ELSE [text |-> "island-", n |-> counter]
    IN  [registry |-> AddKey(m.registry, props.src),
         counter |-> counter,
         wrapper |-> [dataIsland |-> props.src, dataIslandId |-> islandId]]

\* renderToString over the Island elements that are left, from the module
\* state m and the HTML written so far
RECURSIVE renderIslands(_, _, _)
renderIslands(m, elements, html) ==
    IF elements = <<>> THEN [registry |-> m.registry, counter |-> m.counter, html |-> html]
    ELSE LET after == Island(m, Head(elements)) IN
         renderIslands(after, Tail(elements), Append(html, after.wrapper))

\* a getIslands that hands out the registry itself
getIslandsLive == [live |-> TRUE, keys |-> <<>>]
\* getIslands: new Map(islandRegistry)
getIslands == [live |-> FALSE, keys |-> islandRegistry]

\* the keys of a collection getIslands returned, read now
keysOf(collection) == IF collection.live THEN islandRegistry ELSE collection.keys

\* a caller calls resetIslands()
ResetIslands ==
    /\ islandRegistry' = resetIslands.registry
    /\ islandCounter' = resetIslands.counter
    /\ islandCalls' = 0
    /\ sinceReset' = {}
    /\ UNCHANGED <<got, gotFrom, history, notRegistry>>

\* a caller calls Island(props)
CallIsland ==
    /\ islandCalls < MaxIslandCalls
    /\ \E src \in IslandSrcNames, id \in IslandIdProps :
          LET after == Island([registry |-> islandRegistry, counter |-> islandCounter],
                              [src |-> src, id |-> id])
          IN  /\ islandRegistry' = after.registry
              /\ islandCounter' = after.counter
              /\ sinceReset' = sinceReset \cup {src}
    /\ islandCalls' = islandCalls + 1
    /\ UNCHANGED <<got, gotFrom, history, notRegistry>>

\* a caller calls getIslands() and keeps what it returns
GetIslands ==
    /\ got' = getIslands
    /\ gotFrom' = sinceReset
    /\ UNCHANGED <<islandRegistry, islandCounter, islandCalls, sinceReset,
                   history, notRegistry>>

\* renderHtml(vnode): resetIslands(), then renderToString(vnode)
RenderHtml ==
    /\ Len(history) < MaxRenders
    /\ \E page \in IslandPages :
          LET start == resetIslands
              after == renderIslands(start, islandsOf(page), <<>>)
          IN  /\ islandRegistry' = after.registry
              /\ islandCounter' = after.counter
              /\ islandCalls' = Len(islandsOf(page))
              /\ sinceReset' = {islandsOf(page)[i].src : i \in DOMAIN islandsOf(page)}
              /\ history' = Append(history, [page |-> page, html |-> after.html])
    /\ UNCHANGED <<got, gotFrom, notRegistry>>

IslandInit ==
    /\ ProjectInit
    /\ EqIdle
    /\ SideIdle("islands")
    /\ RegistryIdle

IslandNext ==
    \/ ResetIslands
    \/ CallIsland
    \/ GetIslands
    \/ RenderHtml

IslandSpec == IslandInit /\ [][IslandNext]_vars

\* C26: two renders of the same page return the same HTML, island
\* identifiers included, whatever was rendered or registered between them.
C26_RenderDeterministic ==
    \A i, j \in DOMAIN history :
        history[i].page = history[j].page => history[i].html = history[j].html

\* home, then about, then home again, with counter-based identifiers
C26_Witness ==
    /\ Len(history) = 3
    /\ history[1].page = "home"
    /\ history[2].page = "about"
    /\ history[3].page = "home"
    /\ history[3].html[3].dataIslandId = [text |-> "island-", n |-> 3]
    /\ history[2].html[2].dataIslandId = [text |-> "island-", n |-> 1]

\* C27: the collection getIslands returned holds, each once, exactly the
\* src values passed to Island between the last resetIslands and the call,
\* and no later Island or resetIslands call changes it.
C27_RegistryIsCopyOfDistinctSrcs ==
    /\ Range(keysOf(got)) = gotFrom
    /\ Len(keysOf(got)) = Cardinality(gotFrom)

\* a collection of two sources, one of them used twice, read after the
\* registry was reset and filled again
C27_Witness ==
    /\ gotFrom = IslandSrcNames
    /\ Len(history) >= 1
    /\ history[Len(history)].page = "home"
    /\ got.keys = <<"./a.ts", "./b.ts">>
    /\ islandRegistry = <<"./b.ts">>

\* ------------------------------------------------------------------------
\* Lifecycle callbacks (core/lifecycle.ts) and mount / unmount
\* ------------------------------------------------------------------------
\* number of runWithLifecycle calls in one behaviour
MaxCalls == 3
\* number of callbacks created in one behaviour
MaxCallbacks == 4

\* the parts of the state the lifecycle module leaves alone
notLife == <<diskVars, optVars, localVars, islandVars, histVars, eqVars,
             cssVars, srvVars, reloadVars, registryVars, watchVars,
                   signalVars, ctxVars, nameVars>>

\* arr.push(fn) on the array the variable current refers to, if any
pushTo(arrays, current, fn) ==
    IF current = 0 THEN arrays
    ELSE [arrays EXCEPT ![current] = Append(arrays[current], fn)]

\* the call whose function is running, 0 when none is
running == IF frames = <<>> THEN 0 ELSE frames[Len(frames)].call

\* runWithLifecycle is called: lines 15-20, up to the call of fn
Enter ==
    /\ Len(mountsArr) < MaxCalls
    /\ LET call == Len(mountsArr) + 1 IN
       /\ frames' = Append(frames, [call |-> call,
                                    prevMounts |-> currentMounts,
                                    prevCleanups |-> currentCleanups])
       /\ currentMounts' = call
       /\ currentCleanups' = call
    /\ mountsArr' = Append(mountsArr, <<>>)
    /\ cleanupsArr' = Append(cleanupsArr, <<>>)
    /\ ownMounts' = Append(ownMounts, <<>>)
    /\ ownCleanups' = Append(ownCleanups, <<>>)
    /\ UNCHANGED <<returnedCalls, outsideCbs, nextCb, invokedCbs, cleanupMap,
                   mounted, unmounted, notLife>>

\* the running code calls onMount(fn) with a new function
OnMount ==
    /\ nextCb < MaxCallbacks
    /\ nextCb' = nextCb + 1
    /\ mountsArr' = pushTo(mountsArr, currentMounts, nextCb + 1)
    /\ IF running = 0
       THEN outsideCbs' = outsideCbs \cup {nextCb + 1} /\ UNCHANGED ownMounts
       ELSE /\ ownMounts' = [ownMounts EXCEPT ![running] = Append(@, nextCb + 1)]
            /\ UNCHANGED outsideCbs
    /\ UNCHANGED <<currentMounts, currentCleanups, frames, cleanupsArr,
                   returnedCalls, ownCleanups, invokedCbs, cleanupMap, mounted,
                   unmounted, notLife>>

\* the running code calls onCleanup(fn) with a new function
OnCleanup ==
    /\ nextCb < MaxCallbacks
    /\ nextCb' = nextCb + 1
    /\ cleanupsArr' = pushTo(cleanupsArr, currentCleanups, nextCb + 1)
    /\ IF running = 0
       THEN outsideCbs' = outsideCbs \cup {nextCb + 1} /\ UNCHANGED ownCleanups
       ELSE /\ ownCleanups' = [ownCleanups EXCEPT ![running] = Append(@, nextCb + 1)]
            /\ UNCHANGED outsideCbs
    /\ UNCHANGED <<currentMounts, currentCleanups, frames, mountsArr,
                   returnedCalls, ownMounts, invokedCbs, cleanupMap, mounted,
                   unmounted, notLife>>

\* fn returns: lines 22-24
Return ==
    /\ frames # <<>>
    /\ LET top == frames[Len(frames)] IN
       /\ currentMounts' = top.prevMounts
       /\ currentCleanups' = top.prevCleanups
       /\ returnedCalls' = returnedCalls \cup {top.call}
    /\ frames' = SubSeq(frames, 1, Len(frames) - 1)
    /\ UNCHANGED <<mountsArr, cleanupsArr, ownMounts, ownCleanups, outsideCbs,
                   nextCb, invokedCbs, cleanupMap, mounted, unmounted, notLife>>

\* fn throws: runWithLifecycle is left at line 21, and the caller catches
\* the exception
Throw ==
    /\ frames # <<>>
    /\ frames' = SubSeq(frames, 1, Len(frames) - 1)
    /\ UNCHANGED <<currentMounts, currentCleanups, mountsArr, cleanupsArr,
                   returnedCalls, ownMounts, ownCleanups, outsideCbs, nextCb,
                   invokedCbs, cleanupMap, mounted, unmounted, notLife>>

\* mount(vnode, container) of a function component whose body calls
\* onMount(m), m calling onCleanup(late) when it runs, and calls
\* onCleanup(early) itself or not; the code that calls mount is not inside a
\* runWithLifecycle call
MountComponent ==
    /\ frames = <<>>
    /\ Len(mountsArr) < MaxCalls
    /\ nextCb + 3 <= MaxCallbacks
    /\ \E withEarly \in BOOLEAN :
          LET call == Len(mountsArr) + 1
              m == nextCb + 1
              late == nextCb + 2
              early == nextCb + 3
              cleanups == IF withEarly THEN <<early>> ELSE <<>>
          IN  \* runWithLifecycle(() => type(props))
              /\ mountsArr' = Append(mountsArr, <<m>>)
              /\ ownMounts' = Append(ownMounts, <<m>>)
              /\ ownCleanups' = Append(ownCleanups, cleanups)
              /\ returnedCalls' = returnedCalls \cup {call}
              \* cleanupMap.set(node, cleanups) when cleanups.length > 0
              /\ cleanupMap' = IF cleanups # <<>> THEN Put(cleanupMap, call, call)
                               ELSE cleanupMap
              \* for (const m of mounts) m()
              /\ invokedCbs' = invokedCbs \cup {m}
              /\ cleanupsArr' = pushTo(Append(cleanupsArr, cleanups),
                                       currentCleanups, late)
              /\ outsideCbs' = outsideCbs \cup {late}
              /\ mounted' = mounted \cup {[node |-> call, late |-> late]}
    /\ nextCb' = nextCb + 3
    /\ UNCHANGED <<currentMounts, currentCleanups, frames, unmounted, notLife>>

\* unmount(container) of the DOM of a mounted component
Unmount ==
    /\ frames = <<>>
    /\ \E c \in mounted :
          /\ c.node \notin unmounted
          /\ unmounted' = unmounted \cup {c.node}
          /\ IF c.node \in DOMAIN cleanupMap
             THEN /\ invokedCbs' = invokedCbs \cup Range(cleanupsArr[cleanupMap[c.node]])
                  /\ cleanupMap' = Restrict(cleanupMap, (DOMAIN cleanupMap) \ {c.node})
             ELSE UNCHANGED <<invokedCbs, cleanupMap>>
    /\ UNCHANGED <<currentMounts, currentCleanups, frames, mountsArr, cleanupsArr,
                   returnedCalls, ownMounts, ownCleanups, outsideCbs, nextCb,
                   mounted, notLife>>

LifeInit ==
    /\ ProjectInit
    /\ EqIdle
    /\ SideIdle("lifecycle")
    /\ LifeIdle

LifeNext ==
    \/ Enter
    \/ OnMount
    \/ OnCleanup
    \/ Return
    \/ Throw
    \/ MountComponent
    \/ Unmount

LifeSpec == LifeInit /\ [][LifeNext]_vars

\* C28: a runWithLifecycle call that has returned returned exactly the
\* onMount and onCleanup callbacks its own function registered, in order,
\* (those of nested calls excluded, those after a nested call included), and
\* no callback is invoked unless mount or unmount invokes it.
C28_ReturnsOwnRegistrations ==
    /\ \A call \in returnedCalls :
          /\ mountsArr[call] = ownMounts[call]
          /\ cleanupsArr[call] = ownCleanups[call]
    /\ mounted = {} => invokedCbs = {}

\* C29: a callback given to onMount or onCleanup while no runWithLifecycle
\* call is active is neither stored in an array nor invoked.
C29_IgnoredOutsideCalls ==
    \A fn \in outsideCbs :
        /\ \A call \in DOMAIN mountsArr :
              fn \notin Range(mountsArr[call]) /\ fn \notin Range(cleanupsArr[call])
        /\ fn \notin invokedCbs

\* C30: once the DOM of a mounted component has been removed with unmount,
\* the cleanup registered inside its onMount callback has run.
C30_MountCleanupRuns ==
    \A c \in mounted : c.node \in unmounted => c.late \in invokedCbs

\* ------------------------------------------------------------------------
\* Reactive values: ref, computed, effect
\* ------------------------------------------------------------------------
\* number of refs (those of computed included) in one behaviour
MaxRefs == 2
\* number of effects (those of computed and nested ones included)
MaxEffects == 3
\* number of assignments made by top-level code
MaxAssigns == 2
\* number of statements in the function given to effect
MaxBody == 2

RefValues == {"x", "y"}

\* the parts of the state the signals module leaves alone
notSignals == <<diskVars, optVars, localVars, islandVars, histVars, eqVars,
                cssVars, srvVars, reloadVars, registryVars, lifeVars,
                watchVars, ctxVars, nameVars>>

\* the statements a function given to effect is made of:
\*   r.value;   effect(() => r.value);   computed(() => r.value);
\* and the statement of the effect computed creates: dep.value = r.value
ReadStep(r) == [op |-> "read", ref |-> r, to |-> 0]
EffectStep(r) == [op |-> "effect", ref |-> r, to |-> 0]
ComputedStep(r) == [op |-> "computed", ref |-> r, to |-> 0]
CopyStep(r, dep) == [op |-> "copy", ref |-> r, to |-> dep]

\* the state of the module as one record
signals == [val |-> refVal, subs |-> refSubs, fx |-> effects,
            cur |-> currentEffect, stack |-> effectStack, missed |-> missed]

\* get value(): the running execute function is added to subs; fn is the
\* effect whose function contains the read (0: top-level code)
getValue(st, r, fn) ==
    [st EXCEPT !.subs[r] = IF st.cur # 0 THEN AddKey(@, st.cur) ELSE @,
               !.fx = IF fn = 0 THEN @
                      ELSE [@ EXCEPT ![fn].reads = @ \cup {r}]]

\* ref(val)
ref(st, v) == [st EXCEPT !.val = Append(@, v), !.subs = Append(@, <<>>)]

RECURSIVE execute(_, _)
RECURSIVE runBody(_, _, _)
RECURSIVE notify(_, _, _)

\* set value(n): nothing when n === val, else every function of subs is
\* called, those added during the loop included
setValue(st, r, n) ==
    IF st.val[r] = n THEN st
    ELSE LET readers == {e \in DOMAIN st.fx : r \in st.fx[e].reads}
             st1 == notify([st EXCEPT !.val[r] = n], r, 1)
         IN  [st1 EXCEPT !.missed = @ \cup
                 {<<e, r>> : e \in {x \in readers :
                                       st1.fx[x].runs = st.fx[x].runs}}]

notify(st, r, i) ==
    IF i > Len(st.subs[r]) THEN st
    ELSE notify(execute(st, st.subs[r][i]), r, i + 1)

\* effect(fn): execute is created and called
effect(st, body) ==
    execute([st EXCEPT !.fx = Append(@, [body |-> body, runs |-> 0,
                                         reads |-> {}])],
            Len(st.fx) + 1)

\* computed(() => r.value), called by the code of fn
computed(st, r, fn) ==
    LET st1 == getValue(st, r, fn)
        st2 == ref(st1, st1.val[r])
    IN  effect(st2, <<CopyStep(r, Len(st2.val))>>)

runStep(st, fn, s) ==
    CASE s.op = "read" -> getValue(st, s.ref, fn)
      [] s.op = "effect" -> effect(st, <<ReadStep(s.ref)>>)
      [] s.op = "computed" -> computed(st, s.ref, fn)
      [] s.op = "copy" ->
            LET st1 == getValue(st, s.ref, fn)
            IN  setValue(st1, s.to, st1.val[s.ref])

runBody(st, fn, i) ==
    IF i > Len(st.fx[fn].body) THEN st
    ELSE runBody(runStep(st, fn, st.fx[fn].body[i]), fn, i + 1)

\* execute(): lines 39-45
execute(st, e) ==
    LET st1 == [st EXCEPT !.stack = Append(@, e), !.cur = e,
                          !.fx[e].runs = @ + 1, !.fx[e].reads = {}]
        st2 == runBody(st1, e, 1)
    IN  [st2 EXCEPT !.cur = 0, !.stack = SubSeq(@, 1, Len(@) - 1)]

\* the state st is the next state of the module
Becomes(st) ==
    /\ Len(st.val) <= MaxRefs
    /\ Len(st.fx) <= MaxEffects
    /\ refVal' = st.val
    /\ refSubs' = st.subs
    /\ effects' = st.fx
    /\ currentEffect' = st.cur
    /\ effectStack' = st.stack
    /\ missed' = st.missed

\* top-level code: const r = ref("x")
CreateRef ==
    /\ Becomes(ref(signals, "x"))
    /\ UNCHANGED <<assigns, idleRuns, notSignals>>

\* top-level code: const d = computed(() => r.value)
CreateComputed ==
    /\ \E r \in DOMAIN refVal : Becomes(computed(signals, r, 0))
    /\ UNCHANGED <<assigns, idleRuns, notSignals>>

Steps == {ReadStep(r) : r \in DOMAIN refVal}
            \cup {EffectStep(r) : r \in DOMAIN refVal}
            \cup {ComputedStep(r) : r \in DOMAIN refVal}

Bodies == UNION {[1..n -> Steps] : n \in 1..MaxBody}

\* top-level code: effect(fn)
CreateEffect ==
    /\ \E body \in Bodies : Becomes(effect(signals, body))
    /\ UNCHANGED <<assigns, idleRuns, notSignals>>

\* top-level code: r.value = v
Assign ==
    /\ assigns < MaxAssigns
    /\ assigns' = assigns + 1
    /\ \E r \in DOMAIN refVal, v \in RefValues :
          LET st == setValue(signals, r, v) IN
          /\ Becomes(st)
          /\ idleRuns' = (idleRuns \/ (v = refVal[r] /\ st.fx # effects))
    /\ UNCHANGED notSignals

SignalInit ==
    /\ ProjectInit
    /\ EqIdle
    /\ SideIdle("signals")
    /\ SignalIdle

SignalNext ==
    \/ CreateRef
    \/ CreateComputed
    \/ CreateEffect
    \/ Assign

SignalSpec == SignalInit /\ [][SignalNext]_vars

\* C31: an effect whose function read a ref in its last run runs again
\* whenever that ref is given a different value, also when the function
\* created an effect or a computed before the read; giving a ref the value
\* it has runs no effect.
C31_ReadersRunAgain ==
    /\ missed = {}
    /\ ~idleRuns

\* ------------------------------------------------------------------------
\* Context: createContext, Provider, useContext under renderToString
\* ------------------------------------------------------------------------
\* number of renderToString calls in one behaviour
MaxTreeRenders == 2
\* nesting depth of the trees that are rendered
MaxDepth == 2

\* the parts of the state the context module leaves alone
notContext == <<diskVars, optVars, localVars, islandVars, histVars, eqVars,
                cssVars, srvVars, reloadVars, registryVars, lifeVars,
                signalVars, watchVars, nameVars>>

\* const theme = createContext("light")
theme == "theme"
defaultValue == "light"
ProviderValues == {"dark", "blue"}

\* <Consumer/>: a component that returns useContext(theme);
\* <Broken/>: a component that throws;
\* <theme.Provider value={v}>children</theme.Provider>
Consumer == [kind |-> "consumer", value |-> "", children |-> <<>>]
BrokenComponent == [kind |-> "broken", value |-> "", children |-> <<>>]
Provider(v, children) == [kind |-> "provider", value |-> v, children |-> children]

RECURSIVE Trees(_)
Trees(depth) ==
    IF depth = 0 THEN {Consumer, BrokenComponent}
    ELSE LET below == Trees(depth - 1) IN
         below \cup {Provider(v, c) : v \in ProviderValues,
                                      c \in [1..1 -> below] \cup [1..2 -> below]}

\* useContext(ctx): lines 19-22
useContext(map, ctx) ==
    IF ctx \in DOMAIN map /\ Len(map[ctx]) > 0
    THEN map[ctx][Len(map[ctx])]
    ELSE defaultValue

RECURSIVE renderToString(_, _, _)
RECURSIVE renderArray(_, _, _, _)

\* renderProvider: lines 26-37; an exception of render(children) leaves the
\* function at line 34
renderProvider(props, st, enclosing) ==
    LET stack == IF theme \in DOMAIN st.map THEN st.map[theme] ELSE <<>>
        pushed == [st EXCEPT !.map = Put(st.map, theme, Append(stack, props.value))]
        res == renderArray(props.children, 1, pushed,
                           Append(enclosing, props.value))
    IN  IF res.thrown THEN res
        ELSE [res EXCEPT !.map[theme] = SubSeq(@, 1, Len(@) - 1)]

\* renderToString(node): the Provider node, the function component; enclosing
\* holds the values of the Providers the node is inside of, outermost first
renderToString(node, st, enclosing) ==
    IF st.thrown THEN st
    ELSE CASE node.kind = "provider" -> renderProvider(node, st, enclosing)
           [] node.kind = "broken" -> [st EXCEPT !.thrown = TRUE]
           [] node.kind = "consumer" ->
                 [st EXCEPT !.seen = Append(@,
                     [want |-> IF enclosing = <<>> THEN defaultValue
                               ELSE enclosing[Len(enclosing)],
                      got |-> useContext(st.map, theme)])]

\* node.map((n) => renderToString(n)).join("")
renderArray(nodes, i, st, enclosing) ==
    IF i > Len(nodes) THEN st
    ELSE renderArray(nodes, i + 1, renderToString(nodes[i], st, enclosing),
                     enclosing)

\* a page or a test calls renderToString(tree) and catches what it throws
RenderTree ==
    /\ ctxRenders < MaxTreeRenders
    /\ ctxRenders' = ctxRenders + 1
    /\ \E tree \in Trees(MaxDepth) :
          LET st == renderToString(tree, [map |-> ctxMap, seen |-> <<>>,
                                          thrown |-> FALSE], <<>>)
          IN  /\ ctxMap' = st.map
              /\ ctxSeen' = st.seen
              /\ ctxThrown' = st.thrown
    /\ UNCHANGED notContext

ContextInit ==
    /\ ProjectInit
    /\ EqIdle
    /\ SideIdle("context")
    /\ ContextIdle

ContextNext == RenderTree

ContextSpec == ContextInit /\ [][ContextNext]_vars

\* C32: every useContext call made during renderToString returns the value
\* of the innermost Provider the consumer is inside of, the default value
\* when it is inside none; a consumer rendered after a Provider's subtree
\* sees the value that was visible before that Provider.
C32_InnermostProviderValue ==
    \A i \in DOMAIN ctxSeen : ctxSeen[i].got = ctxSeen[i].want

\* ------------------------------------------------------------------------
\* C33: island builds before page documents
\* ------------------------------------------------------------------------
\* buildIslands has returned: every island of allIslands was looked at
IslandsBuilt ==
    /\ pc \in {"write", "saved", "done", "failed"}
    /\ \A s \in Range(allIslands) :
          s \in DOMAIN paths \/ fs[resolveIslandSrcPath(s)] = 0

\* the path buildIslands returned for s is that of a file it wrote in this
\* build, or that of the previous record, which passed the reuse check
ReturnedByBuildIslands(s) ==
    \/ /\ s \in compiled
       /\ paths[s] = IslandJsName(resolveIslandSrcPath(s))
       /\ paths[s] \in writes
       /\ s \in DOMAIN cssOutputs => cssOutputs[s] \in writes
    \/ /\ s \notin compiled
       /\ IslandReuseCondition(s)
       /\ paths[s] = cache.islands[s].jsPath
       /\ s \in DOMAIN cssOutputs => cssOutputs[s] = cache.islands[s].cssPath

\* the island URLs of the document written for page p
IslandUrls(p) ==
    LET refs == htmlRefs[getPageHtmlOutPath(p)] IN
    {u \in refs.scripts \cup refs.links : u.dir = "islands"}

\* C33: when the HTML document of a page has been written in a build,
\* buildIslands of that build has returned, and the island script and
\* stylesheet URLs in the document are exactly the paths buildIslands
\* returned in that build for the islands of the page, each the path of a
\* file compiled in that build or of a record that passed the reuse check.
C33_IslandsBeforeDocuments ==
    pc # "idle" =>
        \A p \in Range(pageFiles) :
            HtmlWritten(p) =>
                LET used == Range(renderedPages[p].islands) IN
                /\ IslandsBuilt
                /\ IslandUrls(p) =
                      {paths[s] : s \in used \cap DOMAIN paths}
                         \cup {cssOutputs[s] : s \in used \cap DOMAIN cssOutputs}
                /\ \A s \in used \cap DOMAIN paths : ReturnedByBuildIslands(s)

\* a document written in this build carries the URL of an island compiled in
\* this build and the URL of an island reused from the previous cache
C33_Witness ==
    /\ pc = "done"
    /\ \E p \in Range(pageFiles) :
          /\ HtmlWritten(p)
          /\ \E s, t \in Range(renderedPages[p].islands) \cap DOMAIN paths :
                /\ s \in compiled
                /\ t \notin compiled
                /\ {paths[s], paths[t]} \subseteq IslandUrls(p)

\* ------------------------------------------------------------------------
\* C34: island records and the pages that reference them
\* ------------------------------------------------------------------------
\* the island sources named by the page records of a cache object
ReferencedSources(c) ==
    UNION {Range(c.pages[p].islandSources) : p \in DOMAIN c.pages}

\* C34: after a build that saved the cache, every key of the saved islands
\* map occurs in the islandSources of a page record of the saved cache.
C34_IslandRecordsAreReferenced ==
    Completed => DOMAIN savedCache.islands \subseteq ReferencedSources(savedCache)

\* an island that had a record when the build began is referenced by no page
\* any more and has no record in the saved cache, which still has records
\* for other islands
C34_Witness ==
    /\ Completed
    /\ cacheAtStart # {}
    /\ \E s \in DOMAIN persistedCache.islands :
          /\ s \notin DOMAIN savedCache.islands
          /\ s \notin ReferencedSources(savedCache)
    /\ DOMAIN savedCache.islands # {}

\* ------------------------------------------------------------------------
\* C35, C36: no lost trigger, recovery from a failed build
\* ------------------------------------------------------------------------
Situations == {"idle", "debounce", "inflight"}

\* C35: while a source change has been observed that no build has started
\* after, a timer is armed or a re-run is queued behind the build in flight,
\* and once triggers stop a build does start after it, whether the change
\* arrived while idle, within a debounce window or during a build.
C35_NoLostTrigger ==
    /\ [](owed # {} => pending # {} \/ (building /\ queued))
    /\ \A s \in Situations : (s \in owed) ~> (s \in served)

\* builds have started after changes observed in each of the three
\* situations
C35_Witness == served = Situations /\ owed = {}

\* C36: when a build started by the trigger settles, thrown or not, building
\* is false again and a re-run queued during it has its timer armed; the flag
\* never stays set, and after a build that threw an armed timer still leads
\* to a build.
C36_RecoversFromFailure ==
    /\ [][inflight' < inflight =>
             /\ ~building'
             /\ ~queued'
             /\ (queued => Cardinality(pending') = 1 /\ timer' \in pending')]_vars
    /\ [](inflight = 0 => ~building)
    /\ (building ~> ~building)
    /\ ((~lastOk /\ ~building /\ pending # {}) ~> building)

\* a build that threw has settled, the re-run queued during it has started
\* and a later trigger has armed a timer
C36_Witness ==
    /\ ~lastOk
    /\ building
    /\ followUp = 0
    /\ started >= 2
    /\ "inflight" \in served
    /\ pending # {}

\* ------------------------------------------------------------------------
\* C39: the watcher filter and the files of the build itself
\* ------------------------------------------------------------------------
\* fileName values of fs.watch(cwd, {recursive: true}), relative to cwd, as
\* lists of pieces of text; a leading "." is a piece of its own

\* what build() creates, writes or removes: the output directory and its
\* files, the temp directory and its modules, the cache file
OwnFiles ==
    {<<"dist">>,
     <<"dist", "/", "index.html">>,
     <<"dist", "/", "index.css">>,
     <<"dist", "/", "src">>,
     <<"dist", "/", "src", "/", "index.html">>,
     <<"dist", "/", "islands">>,
     <<"dist", "/", "islands", "/", "counter.js">>,
     <<"dist", "/", "islands", "/", "counter.js", ".tmp">>,
     <<"dist", "/", "islands", "/", "counter.js", ".br">>,
     <<".", "fleax-temp">>,
     <<".", "fleax-temp", "/", "index.tsx.mjs">>,
     <<".", "fleax-cache.json">>}

\* what an editor or another program changes in the project
ProjectFiles ==
    {<<"src", "/", "index.tsx">>,
     <<"src", "/", "islands", "/", "counter.ts">>,
     <<"pages", "/", "about.tsx">>,
     <<"tsconfig.json">>,
     <<"package.json">>,
     <<"src">>,
     <<".", "git", "/", "index">>,
     <<>>}

\* a filter that lets every named file through
shouldWatchAnyPath(file) == file # <<>>

shouldWatchSourcePath(file) ==
    \/ startsWith(file, <<"src", "/">>)
    \/ startsWith(file, <<"pages", "/">>)
    \/ file = <<"tsconfig.json">>

shouldIgnoreWatchedPath(file) ==
    \/ startsWith(file, <<"dist", "/">>)
    \/ startsWith(file, <<".", "fleax-temp", "/">>)
    \/ file = <<".", "fleax-cache.json">>
    \/ startsWith(file, <<".">>)

\* the watcher callback reaches its call of trigger()
callsTrigger(file) ==
    /\ file # <<>>
    /\ ~shouldIgnoreWatchedPath(file)
    /\ shouldWatchSourcePath(file)

\* the watcher reports a file of the project that was changed from outside
WatcherEvent ==
    \E file \in ProjectFiles :
        /\ callsTrigger(file)
        /\ Trigger

\* the watcher reports a file the running build has written or removed
OwnOutput ==
    /\ inflight > 0
    /\ \E file \in OwnFiles :
          /\ file # lastFile
          /\ lastFile' = file
          /\ IF callsTrigger(file)
             THEN /\ setTimer
                  /\ ownTriggers' = ownTriggers + 1
             ELSE UNCHANGED <<timer, pending, ownTriggers>>
    /\ UNCHANGED <<building, queued, inflight, expiredMid, followUp, lastOk,
                   triggers, started, owed, served, buildVars>>

HotNext ==
    \/ WatcherEvent
    \/ OwnOutput
    \/ TimerExpires
    \/ BuildSettles

HotSpec == Init /\ [][HotNext]_vars

HotFair == HotSpec /\ WF_vars(TimerExpires) /\ WF_vars(BuildSettles)

Quiet == ~building /\ ~queued /\ pending = {} /\ inflight = 0

\* C39: no file the build writes or removes makes the watcher call the
\* trigger, and once the changes from outside have stopped the system comes
\* to rest for good: no build running, no re-run queued, no timer armed.
C39_OwnFilesNeverTrigger ==
    /\ [](ownTriggers = 0)
    /\ [][lastFile' # lastFile => pending' = pending /\ timer' = timer]_vars
    /\ <>[]Quiet

\* all changes from outside have been reported, builds have run and written
\* their files, and the system is at rest
C39_Witness ==
    /\ Quiet
    /\ triggers = MaxTriggers
    /\ started >= 2
    /\ lastFile = <<".", "fleax-cache.json">>

\* ------------------------------------------------------------------------
\* C37: output names of units that share a base name
\* ------------------------------------------------------------------------
\* Paths are lists of pieces of text: directory names, "/", the name
\* without extension and the extension.

\* the parts of the state this build leaves alone
notNames == <<diskVars, optVars, localVars, islandVars, histVars, eqVars,
              cssVars, srvVars, reloadVars, registryVars, lifeVars,
              signalVars, ctxVars, watchVars>>

\* the files readdirSync can list in src/ and in pages/, in findPages order
PageUniverse ==
    << <<"src", "/", "index", ".tsx">>,
       <<"pages", "/", "about", ".jsx">>,
       <<"pages", "/", "about", ".tsx">>,
       <<"pages", "/", "index", ".tsx">> >>

\* the specifiers pages give to Island({src})
IslandUniverse ==
    << <<"./", "src", "/", "islands", "/", "counter", ".ts">>,
       <<"@/", "islands", "/", "counter", ".ts">>,
       <<"./", "src", "/", "widgets", "/", "counter", ".ts">>,
       <<"./", "src", "/", "islands", "/", "menu", ".ts">> >>

Extensions == {".tsx", ".jsx", ".ts"}

\* the elements of seq whose index is in S, in order
RECURSIVE Pick(_, _, _)
Pick(seq, S, i) ==
    IF i > Len(seq) THEN <<>>
    ELSE (IF i \in S THEN <<seq[i]>> ELSE <<>>) \o Pick(seq, S, i + 1)

\* join(cwd, "src", src.slice(2)) for "@/" (the directory src exists),
\* join(cwd, src) for "./"
resolveIslandPath(src) ==
    IF Head(src) = "@/" THEN <<"src", "/">> \o Tail(src)
    ELSE IF Head(src) = "./" THEN Tail(src)
    ELSE src

\* basename(path, extname(path))
basenameWithoutExt(path) ==
    LET slashes == {i \in DOMAIN path : path[i] = "/"}
        last == IF slashes = {} THEN 0
                ELSE CHOOSE i \in slashes : \A j \in slashes : j <= i
        name == SubSeq(path, last + 1, Len(path))
    IN  IF Len(name) > 1 /\ name[Len(name)] \in Extensions
        THEN SubSeq(name, 1, Len(name) - 1)
        ELSE name

\* the bytes of a module, as the text hash() gives for them
moduleHash(path) ==
    IF path[Len(path) - 1] = "menu" THEN "m1"
    ELSE IF "widgets" \in Range(path) /\ ~nmSame THEN "c2"
    ELSE "c1"

\* `.${hash(content)}` in production, "" in development
hashPiece(h, prod) == IF prod THEN <<".", h>> ELSE <<>>

\* paths below dist/ that are written for a unit: the document and the
\* stylesheet of a page (every page imports the same stylesheet), the
\* script of an island
unitOutputs(u, prod) ==
    IF u.kind = "page"
    THEN LET route == basenameWithoutExt(u.path) IN
         {IF route = <<"index">> THEN <<"index", ".html">>
          ELSE route \o <<"/", "index", ".html">>,
          route \o hashPiece("s1", prod) \o <<".css">>}
    ELSE LET srcPath == resolveIslandPath(u.path) IN
         {<<"islands", "/">> \o basenameWithoutExt(srcPath)
              \o hashPiece(moduleHash(srcPath), prod) \o <<".js">>}

PageUnit(path) == [kind |-> "page", path |-> path]
IslandUnit(src) == [kind |-> "island", path |-> src]

\* the files of outs that the record of a unit other than u names
touched(u, outs, how) ==
    {[by |-> u, of |-> c[1], out |-> c[2], how |-> how] :
        c \in {d \in ((DOMAIN nmRecords) \ {u}) \X outs : d[2] \in nmRecords[d[1]]}}

\* build() is called for the first time in a project: pages are found and
\* rendered, their islands collected
NameDiscover ==
    /\ NamesIdle
    /\ \E P \in (SUBSET DOMAIN PageUniverse) \ {{}},
          I \in SUBSET DOMAIN IslandUniverse,
          prod \in BOOLEAN, same \in BOOLEAN :
          LET pages == Pick(PageUniverse, P, 1)
              islands == Pick(IslandUniverse, I, 1)
          IN  /\ nmPages' = pages
              /\ nmIslands' = islands
              /\ nmProd' = prod
              /\ nmSame' = same
              /\ nmTodo' = [i \in DOMAIN islands |-> IslandUnit(islands[i])]
                              \o [i \in DOMAIN pages |-> PageUnit(pages[i])]
    /\ UNCHANGED <<nmRecords, nmDist, nmClash, notNames>>

\* buildIslands compiles one island, or the write loop writes one page
NameBuild ==
    /\ nmTodo # <<>>
    /\ LET u == Head(nmTodo)
           outs == unitOutputs(u, nmProd)
       IN  /\ nmClash' = nmClash \cup touched(u, outs, "written")
           /\ nmRecords' = Put(nmRecords, u, outs)
           /\ nmDist' = nmDist \cup outs
    /\ nmTodo' = Tail(nmTodo)
    /\ UNCHANGED <<nmPages, nmIslands, nmProd, nmSame, notNames>>

\* a page file is deleted and the next build removes the outputs of its
\* record (677-687)
NameCollect ==
    /\ nmTodo = <<>>
    /\ \E i \in DOMAIN nmPages :
          LET u == PageUnit(nmPages[i])
              removed == nmRecords[u] \cap nmDist
          IN  /\ u \in DOMAIN nmRecords
              /\ nmClash' = nmClash \cup touched(u, removed, "removed")
              /\ nmRecords' = Restrict(nmRecords, (DOMAIN nmRecords) \ {u})
              /\ nmDist' = nmDist \ removed
              /\ nmPages' = Pick(nmPages, (DOMAIN nmPages) \ {i}, 1)
    /\ UNCHANGED <<nmIslands, nmProd, nmSame, nmTodo, notNames>>

NamesInit ==
    /\ ProjectInit
    /\ EqIdle
    /\ SideIdle("names")
    /\ NamesIdle

NamesNext ==
    \/ NameDiscover
    \/ NameBuild
    \/ NameCollect

NamesSpec == NamesInit /\ [][NamesNext]_vars

\* C37: the records of two different units of one build name no common
\* output file, and no unit's build or collection wrote or removed a file
\* that the record of another unit names.
C37_DistinctOutputs ==
    /\ \A u, v \in DOMAIN nmRecords : u # v => nmRecords[u] \cap nmRecords[v] = {}
    /\ nmClash = {}

\* ------------------------------------------------------------------------
\* C38: no output without a record
\* ------------------------------------------------------------------------
\* the output files the records of a cache object name
RecordedOutputs(c) ==
    UNION {outputsOf(c.pages[p], c.pages[p].htmlPath) : p \in DOMAIN c.pages}
       \cup UNION {outputsOf(c.islands[s], c.islands[s].jsPath) : s \in DOMAIN c.islands}

\* C38: after a build that saved the cache, every HTML, CSS and island JS
\* file in the output directory (all of them written by this or an earlier
\* build) is named by a record of the saved cache.
C38_NoOrphanOutputs ==
    Completed =>
        \A o \in dist : o.ext \in {"html", "css", "js"} => o \in RecordedOutputs(savedCache)

\* ------------------------------------------------------------------------
\* C40: the live-reload client set
\* ------------------------------------------------------------------------
\* the responses whose event-stream request was accepted and has not closed
OpenStreams == seenClients \ closedClients
\* this step is a reload timer firing
Expiry == notifyArmed' # notifyArmed /\ notifyArmed' \subseteq notifyArmed

\* C40: under every interleaving of connects, closes, output changes and
\* timer expiries the live-reload set holds exactly the responses whose
\* request was accepted and has not closed; a reload event is written only
\* when a timer expires, to exactly the responses in the set at that moment,
\* and never to one whose request has closed.
C40_SetIsOpenStreams ==
    /\ [](liveClients = OpenStreams)
    /\ [](~lateWrite)
    /\ [][ /\ \A c \in Clients :
                received'[c] # received[c] =>
                    /\ Expiry
                    /\ c \in liveClients
                    /\ c \notin closedClients
                    /\ received'[c] = received[c] + 1
           /\ Expiry => \A c \in liveClients : received'[c] = received[c] + 1
         ]_vars

\* one client left before the timer fired and got nothing, another joined,
\* stayed and was told to reload
C40_Witness ==
    /\ notifyArmed = {}
    /\ distWrites >= 1
    /\ \E c \in closedClients : received[c] = 0 /\ c \notin liveClients
    /\ \E c \in liveClients : received[c] >= 1

====
